---------------------------- MODULE Spec2Model ----------------------------
(***************************************************************************)
(* Model of the crawl-and-fetch subsystem of webdocx:                      *)
(*   - ScraperAdapter.fetch            (src/src/webdocx/adapters/scraper.py)*)
(*   - ScraperAdapter.get_same_domain_links                                *)
(*   - scrape_url, crawl_docs          (src/src/webdocx/tools/scraper.py)   *)
(*   - monitor_changes, compare_sources, extract_links                     *)
(*                                     (src/src/webdocx/tools/advanced.py)  *)
(*   - deep_dive                       (src/src/webdocx/tools/research.py)  *)
(*   - DDGAdapter.search           (src/src/webdocx/adapters/duckduckgo.py) *)
(*                                                                         *)
(* URLs, titles, page contents and reports are TLA+ strings and the string *)
(* functions of the code (urlparse, lower, strip, substring tests, slices) *)
(* are computed character by character.  The network is the environment:   *)
(* every strategy call and every link request succeeds or fails            *)
(* nondeterministically, and what a page holds is given by the tables      *)
(* under "The web".  One step of the model is one stretch of code between  *)
(* two awaits.                                                             *)
(***************************************************************************)
EXTENDS Integers, Sequences, FiniteSets, TLC

(***************************************************************************)
(* Strings                                                                 *)
(***************************************************************************)

\* The characters U+0000 to U+00FF in the order of their code points:
\* Latin1[n + 1] is Python's chr(n).  The strings of the model are made of
\* these characters, but for U+0000 and U+0060, which are not written here
\* (U+0060 cannot stand in a TLA+ string): their places hold the empty
\* string, which is no character.
Latin1 ==
    <<
      "", "", "", "", "", "", "", "", "", "\t", "\n", "", "\f", "\r", "", "",
      "", "", "", "", "", "", "", "", "", "", "", "", "", "", "", "",
      " ", "!", "\"", "#", "$", "%", "&", "'", "(", ")", "*", "+", ",", "-", ".", "/",
      "0", "1", "2", "3", "4", "5", "6", "7", "8", "9", ":", ";", "<", "=", ">", "?",
      "@", "A", "B", "C", "D", "E", "F", "G", "H", "I", "J", "K", "L", "M", "N", "O",
      "P", "Q", "R", "S", "T", "U", "V", "W", "X", "Y", "Z", "[", "\\", "]", "^", "_",
      "", "a", "b", "c", "d", "e", "f", "g", "h", "i", "j", "k", "l", "m", "n", "o",
      "p", "q", "r", "s", "t", "u", "v", "w", "x", "y", "z", "{", "|", "}", "~", "",
      "", "", "", "", "", "", "", "", "", "", "", "", "", "", "", "",
      "", "", "", "", "", "", "", "", "", "", "", "", "", "", "", "",
      " ", "¡", "¢", "£", "¤", "¥", "¦", "§", "¨", "©", "ª", "«", "¬", "­", "®", "¯",
      "°", "±", "²", "³", "´", "µ", "¶", "·", "¸", "¹", "º", "»", "¼", "½", "¾", "¿",
      "À", "Á", "Â", "Ã", "Ä", "Å", "Æ", "Ç", "È", "É", "Ê", "Ë", "Ì", "Í", "Î", "Ï",
      "Ð", "Ñ", "Ò", "Ó", "Ô", "Õ", "Ö", "×", "Ø", "Ù", "Ú", "Û", "Ü", "Ý", "Þ", "ß",
      "à", "á", "â", "ã", "ä", "å", "æ", "ç", "è", "é", "ê", "ë", "ì", "í", "î", "ï",
      "ð", "ñ", "ò", "ó", "ô", "õ", "ö", "÷", "ø", "ù", "ú", "û", "ü", "ý", "þ", "ÿ" >>

\* Python chr(n), 0 <= n <= 255.
Chr(n) == Latin1[n + 1]

\* Python ord(c) of a one-character string.
CodePoint(c) == (CHOOSE k \in 1..256 : Latin1[k] = c) - 1

\* s[i] of Python, 1-based here: the one-character string at position i.
CharAt(s, i) == SubSeq(s, i, i)

\* Python `sub in s`.
Contains(s, sub) ==
    \E i \in 0..(Len(s) - Len(sub)) : SubSeq(s, i + 1, i + Len(sub)) = sub

\* Python s.find(c) + 1 for a one-character c: the first position of c in s, 0 if none.
Find(s, c) ==
    IF \E i \in 1..Len(s) : CharAt(s, i) = c
    THEN CHOOSE i \in 1..Len(s) :
            /\ CharAt(s, i) = c
            /\ \A j \in 1..(i - 1) : CharAt(s, j) # c
    ELSE 0

\* Python s.rfind(c) + 1 for a one-character c: the last position of c in s, 0 if none.
RFind(s, c) ==
    IF \E i \in 1..Len(s) : CharAt(s, i) = c
    THEN CHOOSE i \in 1..Len(s) :
            /\ CharAt(s, i) = c
            /\ \A j \in (i + 1)..Len(s) : CharAt(s, j) # c
    ELSE 0

\* Python s.startswith(p).
StartsWith(s, p) == Len(s) >= Len(p) /\ SubSeq(s, 1, Len(p)) = p

UpperChars == <<"A","B","C","D","E","F","G","H","I","J","K","L","M",
                "N","O","P","Q","R","S","T","U","V","W","X","Y","Z">>

LowerChars == <<"a","b","c","d","e","f","g","h","i","j","k","l","m",
                "n","o","p","q","r","s","t","u","v","w","x","y","z">>

\* The upper-case letters past U+007F: U+00C0 to U+00DE but the sign U+00D7.
UpperLatin1 == {Chr(n) : n \in (192..222) \ {215}}

\* c.lower() of a one-character string: A-Z and the letters of UpperLatin1
\* have their lower-case letter 32 code points further.
LowerChar(c) ==
    IF \E k \in 1..26 : UpperChars[k] = c
    THEN LowerChars[CHOOSE k \in 1..26 : UpperChars[k] = c]
    ELSE IF c \in UpperLatin1 THEN Chr(CodePoint(c) + 32)
    ELSE c

\* Python str.lower().
RECURSIVE Lower(_)
Lower(s) == IF s = "" THEN "" ELSE LowerChar(Head(s)) \o Lower(Tail(s))

\* The characters c with c.isspace(): tab, line feed, vertical tab, form
\* feed, carriage return, U+001C to U+001F, space, U+0085 and U+00A0.
WhitespaceChars == {Chr(n) : n \in (9..13) \cup (28..32) \cup {133, 160}}

\* Python s.lstrip(chars) for a set of characters.
RECURSIVE LStripChars(_, _)
LStripChars(s, chars) ==
    IF s # "" /\ Head(s) \in chars THEN LStripChars(Tail(s), chars) ELSE s

\* Python s.rstrip(chars) for a set of characters.
RECURSIVE RStripChars(_, _)
RStripChars(s, chars) ==
    IF s # "" /\ CharAt(s, Len(s)) \in chars
    THEN RStripChars(SubSeq(s, 1, Len(s) - 1), chars)
    ELSE s

\* Python str.lstrip().
LStrip(s) == LStripChars(s, WhitespaceChars)

\* Python str.rstrip().
RStrip(s) == RStripChars(s, WhitespaceChars)

\* Python str.strip().
Strip(s) == LStrip(RStrip(s))

\* Python s[:n].
Prefix(s, n) == SubSeq(s, 1, IF Len(s) < n THEN Len(s) ELSE n)

\* Python sep.join(lines).
RECURSIVE Join(_, _)
Join(sep, lines) ==
    IF lines = <<>> THEN ""
    ELSE IF Len(lines) = 1 THEN lines[1]
    ELSE lines[1] \o sep \o Join(sep, Tail(lines))

\* Python s.split(c) for a one-character c.
RECURSIVE SplitOn(_, _)
SplitOn(s, c) ==
    IF Find(s, c) = 0 THEN <<s>>
    ELSE <<SubSeq(s, 1, Find(s, c) - 1)>> \o SplitOn(SubSeq(s, Find(s, c) + 1, Len(s)), c)

\* The position of the first character of s that is in `delims`, Len(s)+1 if none.
FirstOf(s, delims) ==
    IF \E i \in 1..Len(s) : CharAt(s, i) \in delims
    THEN CHOOSE i \in 1..Len(s) :
            /\ CharAt(s, i) \in delims
            /\ \A j \in 1..(i - 1) : CharAt(s, j) \notin delims
    ELSE Len(s) + 1

\* s without its characters in `chars` (Python s.replace(c, "") for each of them).
RECURSIVE RemoveChars(_, _)
RemoveChars(s, chars) ==
    IF FirstOf(s, chars) > Len(s) THEN s
    ELSE SubSeq(s, 1, FirstOf(s, chars) - 1)
           \o RemoveChars(SubSeq(s, FirstOf(s, chars) + 1, Len(s)), chars)

HexChars == <<"0","1","2","3","4","5","6","7","8","9","a","b","c","d","e","f">>

\* The characters c for which c.isprintable() is false.
NonPrintable == {Chr(n) : n \in (0..31) \cup (127..160) \cup {173}}

\* The text repr() writes for one character of a string quoted by `quote`.
ReprChar(c, quote) ==
    IF c = "\\" THEN "\\\\"
    ELSE IF c = quote THEN "\\" \o quote
    ELSE IF c = "\t" THEN "\\t"
    ELSE IF c = "\n" THEN "\\n"
    ELSE IF c = "\r" THEN "\\r"
    ELSE IF c \in NonPrintable
         THEN "\\x" \o HexChars[(CodePoint(c) \div 16) + 1] \o HexChars[(CodePoint(c) % 16) + 1]
    ELSE c

RECURSIVE ReprBody(_, _)
ReprBody(s, quote) ==
    IF s = "" THEN "" ELSE ReprChar(Head(s), quote) \o ReprBody(Tail(s), quote)

\* The quote repr() chooses: double quotes when s holds ' and no ".
ReprQuote(s) == IF Contains(s, "'") /\ ~Contains(s, "\"") THEN "\"" ELSE "'"

\* Python repr(s) of a string.
PyRepr(s) == ReprQuote(s) \o ReprBody(s, ReprQuote(s)) \o ReprQuote(s)

(***************************************************************************)
(* Numbers as decimal strings (Python str(n), f"{n}"), for 0 <= n <= 999.  *)
(***************************************************************************)
Digits == <<"0","1","2","3","4","5","6","7","8","9">>

NumStr(n) ==
    IF n < 10 THEN Digits[n + 1]
    ELSE IF n < 100 THEN Digits[(n \div 10) + 1] \o Digits[(n % 10) + 1]
    ELSE Digits[(n \div 100) + 1] \o Digits[((n \div 10) % 10) + 1] \o Digits[(n % 10) + 1]

DecimalDigits == {Digits[k] : k \in 1..10}

DigitValue(c) == (CHOOSE k \in 1..10 : Digits[k] = c) - 1

\* Python int(s) for a string of one to three decimal digits.
RECURSIVE DecimalValue(_)
DecimalValue(s) ==
    IF s = "" THEN 0
    ELSE 10 * DecimalValue(SubSeq(s, 1, Len(s) - 1)) + DigitValue(CharAt(s, Len(s)))

(***************************************************************************)
(* ipaddress.ip_address(s), as urlsplit uses it on a host written in       *)
(* brackets: whether s is an IPv4 or an IPv6 address.                      *)
(***************************************************************************)

\* IPv4Address._parse_octet returns.
IsOctet(s) ==
    /\ s # ""
    /\ \A i \in 1..Len(s) : CharAt(s, i) \in DecimalDigits
    /\ Len(s) <= 3
    /\ (s = "0" \/ Head(s) # "0")
    /\ DecimalValue(s) <= 255

OctetsOk(octets) == Len(octets) = 4 /\ \A k \in 1..4 : IsOctet(octets[k])

\* IPv4Address(s) returns.
IsIPv4(s) == s # "" /\ OctetsOk(SplitOn(s, "."))

HexDigits == DecimalDigits \cup {"a","b","c","d","e","f","A","B","C","D","E","F"}

\* IPv6Address._parse_hextet returns.
IsHextet(s) ==
    /\ \A i \in 1..Len(s) : CharAt(s, i) \in HexDigits
    /\ Len(s) <= 4
    /\ s # ""

\* The parts after an IPv4 suffix has been turned into two hextets.
HextetParts(parts) ==
    IF Contains(parts[Len(parts)], ".")
    THEN SubSeq(parts, 1, Len(parts) - 1) \o <<"0", "0">>
    ELSE parts

\* The first `hi` and the last `lo` parts are hextets.
HextetsOk(parts, hi, lo) ==
    /\ \A k \in 1..hi : IsHextet(parts[k])
    /\ \A k \in (Len(parts) - lo + 1)..Len(parts) : IsHextet(parts[k])

\* The checks of IPv6Address._ip_int_from_string on a "::" at part `skip`
\* (1-based): hi parts before it and lo parts after it.
SkippedOk(parts, hi, lo) ==
    /\ (parts[1] = "" => hi = 1)
    /\ (parts[Len(parts)] = "" => lo = 1)
    /\ 8 - ((IF parts[1] = "" THEN 0 ELSE hi) + (IF parts[Len(parts)] = "" THEN 0 ELSE lo)) >= 1
    /\ HextetsOk(parts, IF parts[1] = "" THEN 0 ELSE hi,
                 IF parts[Len(parts)] = "" THEN 0 ELSE lo)

EmptyParts(parts) == {k \in 2..(Len(parts) - 1) : parts[k] = ""}

PartsOk(parts) ==
    /\ Len(parts) <= 9
    /\ Cardinality(EmptyParts(parts)) <= 1
    /\ IF EmptyParts(parts) # {}
       THEN \A k \in EmptyParts(parts) : SkippedOk(parts, k - 1, Len(parts) - k)
       ELSE /\ Len(parts) = 8
            /\ parts[1] # ""
            /\ parts[8] # ""
            /\ HextetsOk(parts, 8, 0)

AddressPartsOk(parts) ==
    /\ Len(parts) >= 3
    /\ (Contains(parts[Len(parts)], ".") => IsIPv4(parts[Len(parts)]))
    /\ PartsOk(HextetParts(parts))

\* IPv6Address._split_scope_id returns: no "%", or one "%" followed by a zone.
ScopeOk(s) ==
    \/ Find(s, "%") = 0
    \/ /\ Find(s, "%") < Len(s)
       /\ ~Contains(SubSeq(s, Find(s, "%") + 1, Len(s)), "%")

\* IPv6Address(s) returns.
IsIPv6(s) ==
    /\ ScopeOk(s)
    /\ SplitOn(s, "%")[1] # ""
    /\ AddressPartsOk(SplitOn(SplitOn(s, "%")[1], ":"))

(***************************************************************************)
(* urllib.parse.  A function that can raise is modelled by a record with a *)
(* field `error`: the message of the ValueError it raises, "" when it       *)
(* returns, and then the other fields hold what it returns.                *)
(***************************************************************************)
SchemeChars ==
    {LowerChars[k] : k \in 1..26} \cup {UpperChars[k] : k \in 1..26}
      \cup {"0","1","2","3","4","5","6","7","8","9","+","-","."}

Letters == {LowerChars[k] : k \in 1..26} \cup {UpperChars[k] : k \in 1..26}

uses_relative ==
    {"", "ftp", "http", "gopher", "nntp", "imap", "wais", "file", "https", "shttp", "mms",
     "prospero", "rtsp", "rtsps", "rtspu", "sftp", "svn", "svn+ssh", "ws", "wss"}

uses_netloc ==
    {"", "ftp", "http", "gopher", "nntp", "telnet", "imap", "wais", "file", "mms", "https",
     "shttp", "snews", "prospero", "rtsp", "rtsps", "rtspu", "rsync", "svn", "svn+ssh",
     "sftp", "nfs", "git", "git+ssh", "ws", "wss"}

uses_params ==
    {"", "ftp", "hdl", "prospero", "http", "imap", "https", "shttp", "rtsp", "rtsps",
     "rtspu", "sip", "sips", "mms", "sftp", "tel"}

\* _WHATWG_C0_CONTROL_OR_SPACE: the characters urlsplit strips from the left.
C0ControlOrSpace == {Chr(n) : n \in 0..32}

\* _UNSAFE_URL_BYTES_TO_REMOVE: the characters urlsplit removes everywhere.
UnsafeUrlBytes == {"\t", "\r", "\n"}

\* urlsplit's first lines: the URL it goes on to split.
CleanUrl(url) == RemoveChars(LStripChars(url, C0ControlOrSpace), UnsafeUrlBytes)

\* urlsplit's first lines: the default scheme it goes on with.
CleanScheme(scheme) ==
    RemoveChars(LStripChars(RStripChars(scheme, C0ControlOrSpace), C0ControlOrSpace),
                UnsafeUrlBytes)

\* <<scheme, rest>>: the scheme of u, lower case, and what follows its ":";
\* the default scheme and u when u has no scheme.
SplitScheme(u, scheme) ==
    IF /\ Find(u, ":") > 1
       /\ Head(u) \in Letters
       /\ \A j \in 1..(Find(u, ":") - 1) : CharAt(u, j) \in SchemeChars
    THEN <<Lower(SubSeq(u, 1, Find(u, ":") - 1)), SubSeq(u, Find(u, ":") + 1, Len(u))>>
    ELSE <<scheme, u>>

\* The text of s before the first character in `delims`, and the text from it on.
SplitBefore(s, delims) ==
    <<SubSeq(s, 1, FirstOf(s, delims) - 1), SubSeq(s, FirstOf(s, delims), Len(s))>>

NotHexChars == {Latin1[k] : k \in 1..256} \ HexDigits

\* `\Av[a-fA-F0-9]+\..+\Z` matches the host, which starts with "v": hex
\* digits follow the "v", then a ".", then at least one character.
IsIPvFuture(host) ==
    /\ FirstOf(Tail(host), NotHexChars) >= 2
    /\ FirstOf(Tail(host), NotHexChars) < Len(Tail(host))
    /\ CharAt(Tail(host), FirstOf(Tail(host), NotHexChars)) = "."

\* _check_bracketed_host(hostname): the message of its ValueError, "" when it returns.
BracketedHostError(hostname) ==
    IF StartsWith(hostname, "v")
    THEN (IF IsIPvFuture(hostname) THEN "" ELSE "IPvFuture address is invalid")
    ELSE IF IsIPv4(hostname) THEN "An IPv4 address cannot be in brackets"
    ELSE IF IsIPv6(hostname) THEN ""
    ELSE PyRepr(hostname) \o " does not appear to be an IPv4 or IPv6 address"

\* netloc.partition('[')[2].partition(']')[0]
BracketedHost(netloc) ==
    SplitOn(SubSeq(netloc, Find(netloc, "[") + 1, Len(netloc)), "]")[1]

\* urlsplit's checks of the netloc: the message of the ValueError, "" when
\* they pass.  (_checknetloc raises on no netloc made of U+0000 to U+00FF.)
NetlocError(netloc) ==
    IF Contains(netloc, "[") # Contains(netloc, "]") THEN "Invalid IPv6 URL"
    ELSE IF Contains(netloc, "[") THEN BracketedHostError(BracketedHost(netloc))
    ELSE ""

CheckedNetloc(netlocRest) ==
    [netloc |-> netlocRest[1], rest |-> netlocRest[2], error |-> NetlocError(netlocRest[1])]

\* The netloc of a URL whose scheme has been taken off, and what follows it.
SplitNetloc(u) ==
    IF StartsWith(u, "//")
    THEN CheckedNetloc(SplitBefore(SubSeq(u, 3, Len(u)), {"/", "?", "#"}))
    ELSE [netloc |-> "", rest |-> u, error |-> ""]

\* Python s.split(c, 1) as <<before, after>>; <<s, "">> when c is not in s.
SplitAt(s, c) ==
    IF Find(s, c) > 0
    THEN <<SubSeq(s, 1, Find(s, c) - 1), SubSeq(s, Find(s, c) + 1, Len(s))>>
    ELSE <<s, "">>

\* _splitparams(url) as <<url, params>>.
SplitParams(path) ==
    IF FirstOf(SubSeq(path, RFind(path, "/") + 1, Len(path)), {";"})
         > Len(path) - RFind(path, "/")
    THEN <<path, "">>
    ELSE <<SubSeq(path, 1, RFind(path, "/")
                             + FirstOf(SubSeq(path, RFind(path, "/") + 1, Len(path)), {";"}) - 1),
           SubSeq(path, RFind(path, "/")
                          + FirstOf(SubSeq(path, RFind(path, "/") + 1, Len(path)), {";"}) + 1,
                  Len(path))>>

\* ParseResult(scheme, netloc, path, params, query, fragment).
ParseResult(scheme, netloc, pathParams, query, fragment) ==
    [scheme |-> scheme, netloc |-> netloc, path |-> pathParams[1], params |-> pathParams[2],
     query |-> query, fragment |-> fragment, error |-> ""]

\* urlparse raises ValueError(message).
ParseError(message) ==
    [scheme |-> "", netloc |-> "", path |-> "", params |-> "", query |-> "",
     fragment |-> "", error |-> message]

\* `if scheme in uses_params and ';' in url`
ParsedUrl(scheme, netloc, pathQuery, fragment) ==
    ParseResult(scheme, netloc,
                IF scheme \in uses_params /\ Contains(pathQuery[1], ";")
                THEN SplitParams(pathQuery[1])
                ELSE <<pathQuery[1], "">>,
                pathQuery[2], fragment)

UrlAfterNetloc(scheme, netloc, restFragment) ==
    ParsedUrl(scheme, netloc, SplitAt(restFragment[1], "?"), restFragment[2])

UrlAfterScheme(scheme, nl) ==
    IF nl.error # "" THEN ParseError(nl.error)
    ELSE UrlAfterNetloc(scheme, nl.netloc, SplitAt(nl.rest, "#"))

UrlOfSplit(schemeRest) == UrlAfterScheme(schemeRest[1], SplitNetloc(schemeRest[2]))

\* urllib.parse.urlparse(url, scheme).
UrlparseWith(url, scheme) == UrlOfSplit(SplitScheme(CleanUrl(url), CleanScheme(scheme)))

\* urllib.parse.urlparse(url).
urlparse(url) == UrlparseWith(url, "")

\* urllib.parse.urlunsplit over the path with its params.
Unsplit(scheme, netloc, path, query, fragment) ==
    (IF scheme # "" THEN scheme \o ":" ELSE "")
      \o (IF netloc # "" \/ (scheme # "" /\ scheme \in uses_netloc /\ ~StartsWith(path, "//"))
          THEN "//" \o netloc \o (IF path # "" /\ ~StartsWith(path, "/") THEN "/" ELSE "")
          ELSE "")
      \o path
      \o (IF query # "" THEN "?" \o query ELSE "")
      \o (IF fragment # "" THEN "#" \o fragment ELSE "")

\* urllib.parse.urlunparse((scheme, netloc, path, params, query, fragment)).
urlunparse(scheme, netloc, path, params, query, fragment) ==
    Unsplit(scheme, netloc, IF params # "" THEN path \o ";" \o params ELSE path,
            query, fragment)

\* bpath.split('/') without its last item when that is not empty.
BaseParts(bpath) ==
    IF SplitOn(bpath, "/")[Len(SplitOn(bpath, "/"))] # ""
    THEN SubSeq(SplitOn(bpath, "/"), 1, Len(SplitOn(bpath, "/")) - 1)
    ELSE SplitOn(bpath, "/")

\* `segments[1:-1] = filter(None, segments[1:-1])`
WithoutEmptyMiddle(segments) ==
    IF Len(segments) < 2 THEN segments
    ELSE <<segments[1]>>
           \o SelectSeq(SubSeq(segments, 2, Len(segments) - 1), LAMBDA seg : seg # "")
           \o <<segments[Len(segments)]>>

\* The segments urljoin resolves.
Segments(bpath, path) ==
    IF StartsWith(path, "/") THEN SplitOn(path, "/")
    ELSE WithoutEmptyMiddle(BaseParts(bpath) \o SplitOn(path, "/"))

\* urljoin's loop over the segments: ".." drops the last resolved segment,
\* "." is left out.
RECURSIVE ResolvePath(_, _)
ResolvePath(segments, resolved_path) ==
    IF segments = <<>> THEN resolved_path
    ELSE IF Head(segments) = ".."
         THEN ResolvePath(Tail(segments),
                          IF resolved_path = <<>> THEN <<>>
                          ELSE SubSeq(resolved_path, 1, Len(resolved_path) - 1))
    ELSE IF Head(segments) = "." THEN ResolvePath(Tail(segments), resolved_path)
    ELSE ResolvePath(Tail(segments), Append(resolved_path, Head(segments)))

\* The path urljoin puts in its result: '/'.join(resolved_path) or '/'.
ResolvedPath(segments) ==
    IF Join("/", ResolvePath(segments, <<>>)
                   \o (IF segments[Len(segments)] \in {".", ".."} THEN <<"">> ELSE <<>>)) = ""
    THEN "/"
    ELSE Join("/", ResolvePath(segments, <<>>)
                     \o (IF segments[Len(segments)] \in {".", ".."} THEN <<"">> ELSE <<>>))

\* urljoin returns `url`.
Joined(url) == [url |-> url, error |-> ""]

\* urljoin raises ValueError(message).
JoinError(message) == [url |-> "", error |-> message]

\* urljoin(base, href) after both have been parsed: b is urlparse(base) and
\* u is urlparse(href, b.scheme).
JoinParsed(b, href, u) ==
    IF u.scheme # b.scheme \/ u.scheme \notin uses_relative THEN Joined(href)
    ELSE IF u.scheme \in uses_netloc /\ u.netloc # ""
         THEN Joined(urlunparse(u.scheme, u.netloc, u.path, u.params, u.query, u.fragment))
    ELSE IF u.path = "" /\ u.params = ""
         THEN Joined(urlunparse(u.scheme, IF u.scheme \in uses_netloc THEN b.netloc ELSE u.netloc,
                                b.path, b.params,
                                IF u.query = "" THEN b.query ELSE u.query, u.fragment))
    ELSE Joined(urlunparse(u.scheme, IF u.scheme \in uses_netloc THEN b.netloc ELSE u.netloc,
                           ResolvedPath(Segments(b.path, u.path)),
                           u.params, u.query, u.fragment))

JoinWithBase(b, href) ==
    IF b.error # "" THEN JoinError(b.error)
    ELSE IF UrlparseWith(href, b.scheme).error # ""
         THEN JoinError(UrlparseWith(href, b.scheme).error)
    ELSE JoinParsed(b, href, UrlparseWith(href, b.scheme))

\* urllib.parse.urljoin(base, href).
urljoin(base, href) ==
    IF base = "" THEN Joined(href)
    ELSE IF href = "" THEN Joined(base)
    ELSE JoinWithBase(urlparse(base), href)

(***************************************************************************)
(* The web (the environment).  A server answers by host and path, whatever *)
(* the query and fragment.  For each page: the title and markdown the      *)
(* rendering strategy (crawl4ai) extracts, the title and text the static   *)
(* strategy (httpx + readability + _html_to_markdown) extracts, and the    *)
(* href attributes of the anchors of its HTML, in document order.          *)
(*                                                                         *)
(*   a.example   /docs links to /docs/intro and to b.example/other          *)
(*   s.example   a documentation site with cycles, a link with a query, a  *)
(*               fragment link back to the root, a login link, an external *)
(*               link, a link to a page that does not exist and, on /faq,  *)
(*               a link whose host opens a bracket it never closes         *)
(*   b.example   another host                                              *)
(*   docs.d.example  a site whose host name holds a hint token and whose   *)
(*               paths hold none                                           *)
(*   c.example   a chain of pages /p/0 -> /p/1 -> ... -> /p/ChainLen       *)
(*   x.example   the pages watched by monitor_changes; their text depends  *)
(*               on the version of the page                                *)
(***************************************************************************)
ChainLen == 21

PageRec(t1, b1, t2, b2, hs) ==
    [c4aTitle |-> t1, c4aMarkdown |-> b1, rdTitle |-> t2, rdText |-> b2, hrefs |-> hs]

ChainIndex(path) ==
    CHOOSE n \in 0..ChainLen : path = "/p/" \o NumStr(n)

IsChainPath(path) == \E n \in 0..ChainLen : path = "/p/" \o NumStr(n)

\* Whether the server has a page for this URL.
ExistsAt(u) ==
    \/ u.netloc = "a.example" /\ u.path \in {"/docs", "/docs/intro"}
    \/ u.netloc = "s.example"
         /\ u.path \in {"/docs", "/docs/intro", "/api", "/guide/start", "/faq", "/login"}
    \/ u.netloc = "b.example" /\ u.path = "/other"
    \/ u.netloc = "docs.d.example" /\ u.path \in {"/home", "/faq", "/api"}
    \/ u.netloc = "c.example" /\ IsChainPath(u.path)
    \/ u.netloc = "x.example" /\ u.path \in {"", "/same"}

Exists(url) == ExistsAt(urlparse(url))

PageAt(u, key, version) ==
        CASE key = "a.example/docs" ->
                PageRec("A Docs", "Overview", "A Docs", "Overview",
                        <<"https://a.example/docs/intro", "https://b.example/other">>)
          [] key = "a.example/docs/intro" ->
                PageRec("A Intro", "First steps", "A Intro", "First steps", <<>>)
          [] key = "s.example/docs" ->
                PageRec("Docs", "Welcome", "Docs | S", "Welcome",
                        <<"/docs/intro", "https://s.example/api?v=2",
                          "https://b.example/other", "https://s.example/login",
                          "https://s.example/docs#top", "https://s.example/docs/intro",
                          "mailto:docs@s.example">>)
          [] key = "s.example/docs/intro" ->
                PageRec("Intro", "Start here", "Intro", "Start here",
                        <<"https://s.example/docs", "/api", "/guide/start",
                          "https://s.example/missing">>)
          [] key = "s.example/api" ->
                PageRec("API", "Calls", "API", "Calls",
                        <<"https://s.example/docs/intro", "https://s.example/faq">>)
          [] key = "s.example/guide/start" ->
                PageRec("Guide", "Steps", "Guide", "Steps", <<"https://s.example/docs">>)
          [] key = "s.example/faq" ->
                PageRec("FAQ", "Answers", "FAQ", "Answers",
                        <<"/docs", "https://[s.example/help">>)
          [] key = "s.example/login" ->
                PageRec("Sign in", "Password", "Sign in", "Password", <<"/docs">>)
          [] key = "b.example/other" ->
                PageRec("Other", "Elsewhere", "Other", "Elsewhere",
                        <<"https://b.example/other", "https://a.example/docs">>)
          [] key = "docs.d.example/home" ->
                PageRec("Home", "Start", "Home", "Start", <<"/faq", "/api">>)
          [] key = "docs.d.example/faq" ->
                PageRec("FAQ", "Answers", "FAQ", "Answers", <<>>)
          [] key = "docs.d.example/api" ->
                PageRec("API", "Calls", "API", "Calls", <<"/home">>)
          [] u.netloc = "c.example" /\ IsChainPath(u.path) ->
                PageRec("P", "x", "P", "x",
                        IF ChainIndex(u.path) < ChainLen
                        THEN <<"/p/" \o NumStr(ChainIndex(u.path) + 1)>>
                        ELSE <<>>)
          [] key = "x.example" ->
                PageRec("X", IF version = 1 THEN "one [menu]" ELSE "two [menu]",
                        "X", IF version = 1 THEN "one" ELSE "two", <<>>)
          [] key = "x.example/same" ->
                PageRec("S", IF version = 1 THEN "one" ELSE "two",
                        "S", IF version = 1 THEN "one" ELSE "two", <<>>)

PageOfParsed(u, version) == PageAt(u, u.netloc \o u.path, version)

Page(url, version) == PageOfParsed(urlparse(url), version)


(***************************************************************************)
(* ScraperAdapter: the Documents of the two strategies and link extraction *)
(***************************************************************************)

\* The attribution header both strategies prepend: f"# {title}\n\n> Source: {url}\n\n{content}".
Attributed(title, url, content) ==
    "# " \o title \o "\n\n> Source: " \o url \o "\n\n" \o content

\* The Document _fetch_with_crawl4ai returns when the crawler reports success.
Document(url, title, content, t) ==
    [url |-> url, title |-> title, content |-> content, fetched_at |-> t]

Crawl4aiResult(url, pg, t) ==
    Document(url, pg.c4aTitle, Attributed(pg.c4aTitle, url, pg.c4aMarkdown), t)

HttpxResult(url, pg, t) ==
    Document(url, pg.rdTitle, Attributed(pg.rdTitle, url, pg.rdText), t)

Crawl4aiDocument(url, version, t) == Crawl4aiResult(url, Page(url, version), t)

\* The Document _fetch_with_httpx returns when the request and the parse succeed.
HttpxDocument(url, version, t) == HttpxResult(url, Page(url, version), t)

\* fetch's checks before its retry loop: TRUE when one of them raises
\* ScrapingError; parsed is urlparse(url).
RejectsParsed(url, parsed) ==
    \/ Strip(url) = ""
    \/ parsed.error = "" /\ (parsed.scheme = "" \/ parsed.netloc = "")

FetchRejects(url) == RejectsParsed(url, urlparse(url))

\* The message of the ScrapingError fetch raises before its retry loop.
RejectReason(url) ==
    IF Strip(url) = "" THEN "URL cannot be empty" ELSE "Invalid URL format"

\* The message of the ValueError that leaves fetch from `parsed = urlparse(url)`,
\* "" when that line is not reached or returns.
FetchValueError(url) == IF Strip(url) = "" THEN "" ELSE urlparse(url).error

\* ScrapingError.__init__: the exception's message.
ScrapingErrorMessage(url, reason) == "Failed to scrape " \o url \o ": " \o reason

\* CrawlError.__init__: the exception's message.
CrawlErrorMessage(root, reason) == "Failed to crawl " \o root \o ": " \o reason

\* Backoff growing by one time unit per attempt.
BackoffLinear(attempt) == attempt + 1

\* 2**attempt, the backoff delay fetch sleeps after failed attempt `attempt`.
RECURSIVE Backoff(_)
Backoff(attempt) == IF attempt = 0 THEN 1 ELSE 2 * Backoff(attempt - 1)

\* The loop body of get_same_domain_links for one href: the list with the
\* cleaned URL appended when it is on the base's host, http(s), has a path
\* and is not yet in the list.
AppendNew(links, clean_url) ==
    IF \A k \in 1..Len(links) : links[k] # clean_url
    THEN Append(links, clean_url)
    ELSE links

\* AddParsedLink without the test `parsed.netloc == base_domain`.
AddParsedLinkAnyDomain(links, base_domain, parsed) ==
    IF /\ parsed.scheme \in {"http", "https"}
       /\ parsed.path # ""
    THEN AppendNew(links, parsed.scheme \o "://" \o parsed.netloc \o parsed.path)
    ELSE links

AddParsedLink(links, base_domain, parsed) ==
    IF /\ parsed.netloc = base_domain
       /\ parsed.scheme \in {"http", "https"}
       /\ parsed.path # ""
    THEN AppendNew(links, parsed.scheme \o "://" \o parsed.netloc \o parsed.path)
    ELSE links

\* What get_same_domain_links returns or raises: the list, or the message of
\* the ValueError of urlparse or urljoin.
LinksResult(list) == [links |-> list, error |-> ""]

LinksError(message) == [links |-> <<>>, error |-> message]

RECURSIVE SameDomainLinksFrom(_, _, _)
\* The loop body from `parsed = urlparse(absolute_url)` on, and the rest of the loop.
AddParsedAndGoOn(links, base_url, hrefs, parsed) ==
    IF parsed.error # "" THEN LinksError(parsed.error)
    ELSE SameDomainLinksFrom(AddParsedLink(links, urlparse(base_url).netloc, parsed),
                             base_url, Tail(hrefs))

\* The loop body after `absolute_url = urljoin(base_url, href)`, and the rest
\* of the loop.
AddJoinedAndGoOn(links, base_url, hrefs, absolute_url) ==
    IF absolute_url.error # "" THEN LinksError(absolute_url.error)
    ELSE AddParsedAndGoOn(links, base_url, hrefs, urlparse(absolute_url.url))

\* `for a_tag in soup.find_all("a", href=True)` from the anchor Head(hrefs) on.
SameDomainLinksFrom(links, base_url, hrefs) ==
    IF hrefs = <<>> THEN LinksResult(links)
    ELSE AddJoinedAndGoOn(links, base_url, hrefs, urljoin(base_url, Head(hrefs)))

\* ScraperAdapter.get_same_domain_links(html, base_url), html given by its hrefs.
get_same_domain_links(hrefs, base_url) ==
    IF urlparse(base_url).error # "" THEN LinksError(urlparse(base_url).error)
    ELSE SameDomainLinksFrom(<<>>, base_url, hrefs)


(***************************************************************************)
(* crawl_docs: its pure parts                                              *)
(***************************************************************************)

\* ClampPages without its upper limit: max(max_pages, 1).
ClampPagesUncapped(n) == IF n > 1 THEN n ELSE 1

\* max_pages = min(max(max_pages, 1), 20)
ClampPages(n) ==
    LET lo == IF n > 1 THEN n ELSE 1
    IN  IF lo < 20 THEN lo ELSE 20

SkipList == <<"login", "signup", "download", "print", ".pdf", ".zip">>

DocHints == <<"doc", "guide", "tutorial", "reference">>

\* any(skip in url.lower() for skip in [...])
IsSkipped(url) == \E k \in 1..Len(SkipList) : Contains(Lower(url), SkipList[k])

\* any(doc_hint in link.lower() for doc_hint in [...])
IsDocHint(link) == \E k \in 1..Len(DocHints) : Contains(Lower(link), DocHints[k])

InList(list, e) == \E k \in 1..Len(list) : list[k] = e

\* EnqueueLink without the test `link in visited or link in to_visit`.
EnqueueLinkUnchecked(queue, seen, link, followExternal, rootDomain) ==
    IF ~followExternal /\ urlparse(link).netloc # rootDomain THEN queue
    ELSE IF IsDocHint(link) THEN <<link>> \o queue
    ELSE Append(queue, link)

\* EnqueueLink with its domain test turned round (== for !=).
EnqueueLinkOtherDomains(queue, seen, link, followExternal, rootDomain) ==
    IF link \in seen \/ InList(queue, link) THEN queue
    ELSE IF ~followExternal /\ urlparse(link).netloc = rootDomain THEN queue
    ELSE IF IsDocHint(link) THEN <<link>> \o queue
    ELSE Append(queue, link)

\* The body of `for link in links` for one link: the pending list after it.
EnqueueLink(queue, seen, link, followExternal, rootDomain) ==
    IF link \in seen \/ InList(queue, link) THEN queue
    ELSE IF ~followExternal /\ urlparse(link).netloc # rootDomain THEN queue
    ELSE IF IsDocHint(link) THEN <<link>> \o queue
    ELSE Append(queue, link)

\* Whether the body of `for link in links` raises for this link: the
\* ValueError of `urlparse(link)`, which the domain test alone evaluates.
EnqueueRaises(queue, seen, link, followExternal) ==
    /\ ~(link \in seen \/ InList(queue, link))
    /\ ~followExternal
    /\ urlparse(link).error # ""

\* `for link in links`: the pending list after the loop, or at the link whose
\* iteration raises (to_visit is changed in place).
RECURSIVE EnqueueLinks(_, _, _, _, _)
EnqueueLinks(queue, seen, links, followExternal, rootDomain) ==
    IF links = <<>> THEN queue
    ELSE IF EnqueueRaises(queue, seen, Head(links), followExternal) THEN queue
    ELSE EnqueueLinks(EnqueueLink(queue, seen, Head(links), followExternal, rootDomain),
                      seen, Tail(links), followExternal, rootDomain)

\* Python s.split("\n").
RECURSIVE SplitLines(_)
SplitLines(s) ==
    LET i == Find(s, "\n") IN
    IF i = 0 THEN <<s>>
    ELSE <<SubSeq(s, 1, i - 1)>> \o SplitLines(SubSeq(s, i + 1, Len(s)))

\* Python s.replace(a, b) for one-character a and b.
RECURSIVE ReplaceChar(_, _, _)
ReplaceChar(s, a, b) ==
    IF s = "" THEN ""
    ELSE (IF Head(s) = a THEN b ELSE Head(s)) \o ReplaceChar(Tail(s), a, b)

\* anchor = title.lower().replace(" ", "-").replace("/", "-")[:50]
Anchor(title) == Prefix(ReplaceChar(ReplaceChar(Lower(title), " ", "-"), "/", "-"), 50)

\* Python `title or url`.
TitleOr(title, url) == IF title # "" THEN title ELSE url

\* The page's content from the line after its first "> Source:" line (all of it
\* when there is none), joined again with "\n".
StripHeader(content) ==
    LET lines == SplitLines(content)
        hits == {j \in 1..Len(lines) : StartsWith(lines[j], "> Source:")}
        start == IF hits = {} THEN 0
                 ELSE CHOOSE j \in hits : \A k \in hits : j <= k
    IN  Join("\n", SubSeq(lines, start + 1, Len(lines)))

\* TocLines with the budget reported as the number of pages retrieved.
TocLinesOfBudget(root, pageList, budget) ==
    << "# Documentation\n",
       "> Crawled from: " \o root \o "\n",
       "> Pages: " \o NumStr(budget) \o "/" \o NumStr(budget) \o "\n",
       "## Table of Contents\n" >>
    \o [i \in 1..Len(pageList) |->
          NumStr(i) \o ". [" \o TitleOr(pageList[i][2], pageList[i][1])
            \o "](#" \o Anchor(pageList[i][2]) \o ")"]

\* toc_lines after the loop over pages; a page is <<url, title, content>>.
TocLines(root, pageList, budget) ==
    << "# Documentation\n",
       "> Crawled from: " \o root \o "\n",
       "> Pages: " \o NumStr(Len(pageList)) \o "/" \o NumStr(budget) \o "\n",
       "## Table of Contents\n" >>
    \o [i \in 1..Len(pageList) |->
          NumStr(i) \o ". [" \o TitleOr(pageList[i][2], pageList[i][1])
            \o "](#" \o Anchor(pageList[i][2]) \o ")"]

\* content_lines after the loop over pages: a heading and a body per page.
ContentLines(pageList) ==
    [k \in 1..(2 * Len(pageList)) |->
        LET i == (k + 1) \div 2 IN
        IF k % 2 = 1
        THEN "\n---\n\n## " \o NumStr(i) \o ". "
               \o TitleOr(pageList[i][2], pageList[i][1])
               \o "\n\n> Source: " \o pageList[i][1] \o "\n\n"
        ELSE StripHeader(pageList[i][3])]

\* The string crawl_docs returns.
CombinedDocument(root, pageList, budget) ==
    Join("\n", TocLines(root, pageList, budget)) \o "\n" \o Join("\n", ContentLines(pageList))

(***************************************************************************)
(* scrape_url and monitor_changes: their pure parts                        *)
(***************************************************************************)

\* doc.fetched_at.strftime('%Y-%m-%d %H:%M:%S'); the model's clock counts the
\* seconds 0..9 after 2025-01-01 00:00:00.
Strftime(t) == "2025-01-01 00:00:0" \o NumStr(t)

\* The characters re's \w matches in a str pattern: c.isalnum() or "_".  Past
\* U+007F these are the letters U+00AA, U+00B5, U+00BA, U+00C0 to U+00FF but
\* the signs U+00D7 and U+00F7, and the digits and fractions U+00B2, U+00B3,
\* U+00B9, U+00BC to U+00BE.
WordChars ==
    Letters \cup {"0","1","2","3","4","5","6","7","8","9","_"}
        \cup {Chr(n) : n \in {170, 178, 179, 181, 185, 186, 188, 189, 190}
                                \cup ((192..255) \ {215, 247})}

\* len(re.findall(r"\w+", s)): the number of maximal runs of word characters.
WordCount(s) ==
    Cardinality({i \in 1..Len(s) :
                    /\ CharAt(s, i) \in WordChars
                    /\ (i = 1 \/ CharAt(s, i - 1) \notin WordChars)})

\* What scrape_url returns for a fetched Document.
ScrapeOutput(doc, include_metadata) ==
    IF ~include_metadata THEN doc.content
    ELSE doc.content \o "\n---\n" \o "## Metadata\n"
           \o "- **Fetched**: " \o Strftime(doc.fetched_at) \o "\n"
           \o "- **Word Count**: ~" \o NumStr(WordCount(doc.content)) \o "\n"
           \o "- **Lines**: " \o NumStr(Len(SplitLines(doc.content))) \o "\n"


\* hashlib.sha256(content.encode()).hexdigest()[:16], tabulated for the contents
\* of the pages monitor_changes watches in the model (the x.example pages).
Sha256Hex16(content) ==
    CASE content = "# X\n\n> Source: https://x.example\n\none [menu]" -> "3bb9cb2386ed0bc0"
      [] content = "# X\n\n> Source: https://x.example\n\ntwo [menu]" -> "3d414f5919dc834f"
      [] content = "# X\n\n> Source: https://x.example\n\none" -> "89f6a23685d1b7fd"
      [] content = "# X\n\n> Source: https://x.example\n\ntwo" -> "20bc9e155b556817"
      [] content = "# S\n\n> Source: https://x.example/same\n\none" -> "bce36c3817ac2626"
      [] content = "# S\n\n> Source: https://x.example/same\n\ntwo" -> "50bf8ffbff789e45"

\* An optional string (str | None) is <<>> for None and <<s>> for the string s.
None == <<>>

Some(s) == <<s>>

\* Truthy as `is not None`.
TruthyNotNone(opt) == opt # None

\* Python truthiness of an optional string: neither None nor "".
Truthy(opt) == opt # None /\ opt[1] # ""

\* The three status lines of the report; the source's leading signs (a check
\* mark, a warning sign, an information sign) are not ASCII and are left out,
\* and the backquotes the source puts around a hash are written as quotes.
UnchangedLine == "**No changes detected**\n"

ChangedLine == "**Content has changed**\n"

BaselineLine == "**First check - baseline established**\n"

\* report_lines of monitor_changes for a fetched Document.
MonitorReportLines(doc, url, previous_content) ==
    LET current_hash == Sha256Hex16(doc.content)
        head == << "# Change Monitor: " \o doc.title \o "\n",
                   "> URL: " \o url \o "\n",
                   "> Checked: " \o Strftime(doc.fetched_at) \o "\n",
                   "\n## Status\n" >>
        status ==
            IF Truthy(previous_content)
            THEN IF previous_content[1] = current_hash
                 THEN << UnchangedLine >>
                 ELSE << ChangedLine,
                         "\n- Previous hash: '" \o previous_content[1] \o "'\n",
                         "- Current hash: '" \o current_hash \o "'\n" >>
            ELSE << BaselineLine,
                    "\n- Content hash: '" \o current_hash \o "'\n" >>
        preview == Strip(Prefix(doc.content, 500))
    IN  head \o status \o << "\n## Current Content Preview\n", preview \o "...\n" >>

\* The status a report states, read off its status line.
ReportStatus(lines) ==
    CASE InList(lines, UnchangedLine) -> "Unchanged"
      [] InList(lines, ChangedLine) -> "Changed"
      [] InList(lines, BaselineLine) -> "Baseline"
      [] OTHER -> "none"


(***************************************************************************)
(* utils/orchestrator.py: intent classification, workflow suggestion and   *)
(* the research context.                                                   *)
(*                                                                         *)
(* A confidence is a Python float.  It is written <<m, e>>: m is its exact *)
(* decimal value in thousandths and e in {-1, 0, 1} says whether the       *)
(* double the code computes lies below, on or above the double nearest to  *)
(* that decimal value (0.15 + 6 * 0.05 evaluates to 0.45000000000000007).  *)
(* Python values that are lists, strings and dicts carry their type.       *)
(***************************************************************************)

\* INTENT_PATTERNS, in the order of the dict.
IntentOrder ==
    <<"documentation", "comparison", "deep_research", "discovery", "monitoring",
      "validation", "quick_answer">>

IntentKeywords(intent) ==
    CASE intent = "documentation" ->
            <<"documentation", "docs", "api reference", "guide", "tutorial", "manual",
              "handbook", "specification">>
      [] intent = "comparison" ->
            <<"compare", "difference", "versus", "vs", "better than", "advantages",
              "pros cons", "which", "between">>
      [] intent = "deep_research" ->
            <<"research", "comprehensive", "everything about", "deep dive", "thorough",
              "complete", "exhaustive", "in-depth">>
      [] intent = "discovery" ->
            <<"related", "similar", "alternatives", "also", "other", "like", "find more",
              "explore">>
      [] intent = "monitoring" ->
            <<"changed", "updated", "new version", "check", "monitor", "track", "latest",
              "recent changes">>
      [] intent = "validation" ->
            <<"check if", "verify", "validate", "exists", "accessible", "working",
              "available">>
      [] intent = "quick_answer" ->
            <<"what is", "how to", "quick", "simple", "just", "only">>

IntentPriority(intent) ==
    CASE intent = "documentation" -> 8
      [] intent = "comparison" -> 7
      [] intent = "deep_research" -> 6
      [] intent = "discovery" -> 5
      [] intent = "monitoring" -> 9
      [] intent = "validation" -> 7
      [] intent = "quick_answer" -> 3

ConflictsWith(intent) ==
    CASE intent = "deep_research" -> {"quick_answer"}
      [] intent = "quick_answer" -> {"deep_research"}
      [] OTHER -> {}

\* ResearchContext; found_sources and user_constraints are never written.
ResearchContext(known_urls, failed_tools, failure_reasons, previous_results, search_attempts) ==
    [known_urls |-> known_urls, failed_tools |-> failed_tools,
     failure_reasons |-> failure_reasons, found_sources |-> <<>>,
     previous_results |-> previous_results, user_constraints |-> <<>>,
     search_attempts |-> search_attempts]

\* ResearchContext(): every field at its default.
EmptyContext == ResearchContext(<<>>, <<>>, <<>>, <<>>, 0)

\* ResearchContext.has_urls
HasUrls(context) == Len(context.known_urls) > 0

IntentScore(intent, confidence, reasons, keywords_matched) ==
    [intent |-> intent, confidence |-> confidence, reasons |-> reasons,
     keywords_matched |-> keywords_matched]

\* Python a < b on two confidences.
ConfLess(a, b) == a[1] < b[1] \/ (a[1] = b[1] /\ a[2] < b[2])

\* The rounding of the double n * 0.15 + p * 0.05 for the sums under 0.95.
SumRounding(n, p) ==
    IF <<n, p>> \in {<<1, 3>>, <<1, 6>>, <<2, 6>>} THEN 1
    ELSE IF <<n, p>> = <<3, 9>> THEN -1
    ELSE 0

\* min(0.95, len(matched_keywords) * 0.15 + pattern["priority"] * 0.05)
BaseConfidence(n, p) ==
    IF 150 * n + 50 * p >= 950 THEN <<950, 0>> ELSE <<150 * n + 50 * p, SumRounding(n, p)>>

\* confidence *= 0.5: halving a double is exact.
Halved(c) == <<c[1] \div 2, c[2]>>

\* confidence *= 1.2, for the confidence of deep_research with n keywords.
Boosted(c, n) ==
    <<(c[1] * 6) \div 5, IF n = 2 THEN 1 ELSE IF n = 3 THEN -1 ELSE 0>>

\* The confidence of an intent with n matched keywords, adjusted by the context.
Confidence(intent, n, has_urls, search_attempts) ==
    IF intent = "quick_answer" /\ search_attempts > 2
    THEN Halved(BaseConfidence(n, IntentPriority(intent)))
    ELSE IF intent = "deep_research" /\ has_urls
    THEN Boosted(BaseConfidence(n, IntentPriority(intent)), n)
    ELSE BaseConfidence(n, IntentPriority(intent))

\* matched_keywords = [kw for kw in pattern["keywords"] if kw in query_lower]
MatchedKeywords(intent, query_lower) ==
    SelectSeq(IntentKeywords(intent), LAMBDA kw : Contains(query_lower, kw))

\* The entry of `scores` for an intent and its matched keywords.
ScoreOfMatch(intent, matched, has_urls, search_attempts) ==
    IntentScore(intent, Confidence(intent, Len(matched), has_urls, search_attempts),
                <<"Matched keywords: " \o Join(", ", matched),
                  "Priority level: " \o NumStr(IntentPriority(intent)) \o "/10">>,
                matched)

\* _classify_intent_cached(query_lower, has_urls, search_attempts)
ClassifyIntentCached(query_lower, has_urls, search_attempts) ==
    LET all == [i \in 1..Len(IntentOrder) |->
                   ScoreOfMatch(IntentOrder[i], MatchedKeywords(IntentOrder[i], query_lower),
                                has_urls, search_attempts)]
        scores == SelectSeq(all, LAMBDA s : s.keywords_matched # <<>>)
    IN  IF scores = <<>>
        THEN <<IntentScore("quick_answer", <<500, 0>>,
                           <<"Default fallback - no specific intent detected">>, <<>>)>>
        ELSE scores

\* sorted(scores, key=lambda x: x.confidence, reverse=True): by falling
\* confidence, scores of equal confidence in their order in `scores`.
SortedByConfidence(scores) ==
    LET Before(i, j) ==
            \/ ConfLess(scores[j].confidence, scores[i].confidence)
            \/ scores[i].confidence = scores[j].confidence /\ i < j
        Rank(i) == 1 + Cardinality({j \in 1..Len(scores) : Before(j, i)})
    IN  [r \in 1..Len(scores) |-> scores[CHOOSE i \in 1..Len(scores) : Rank(i) = r]]

\* ConflictFilter keeping every score.
KeepConflicts(scores, intents_added, filtered_scores) == filtered_scores \o scores

\* The loop that drops a score whose intent conflicts with one already added.
RECURSIVE ConflictFilter(_, _, _)
ConflictFilter(scores, intents_added, filtered_scores) ==
    IF scores = <<>> THEN filtered_scores
    ELSE IF ConflictsWith(Head(scores).intent) \cap intents_added = {}
    THEN ConflictFilter(Tail(scores), intents_added \cup {Head(scores).intent},
                        Append(filtered_scores, Head(scores)))
    ELSE ConflictFilter(Tail(scores), intents_added, filtered_scores)

\* classify_intent(query, context)
ClassifyIntent(query, context) ==
    SortedByConfidence(
        ConflictFilter(
            SortedByConfidence(
                ClassifyIntentCached(Lower(query), HasUrls(context), context.search_attempts)),
            {}, <<>>))

(***************************************************************************)
(* A dict is the sequence of its <<key, value>> items in insertion order;  *)
(* a value that is not a string is written as Python prints it ("25",      *)
(* "True", "None", "[]").                                                  *)
(***************************************************************************)

\* suggest_parameters(tool_name, intent, context)
SuggestParameters(tool_name, intent, context) ==
    CASE tool_name = "crawl_docs" ->
            IF intent = "quick_answer"
            THEN <<<<"max_pages", "5">>, <<"follow_external", "False">>>>
            ELSE IF intent = "deep_research"
            THEN <<<<"max_pages", "100">>, <<"follow_external", "True">>>>
            ELSE <<<<"max_pages", "25">>, <<"follow_external", "False">>>>
      [] tool_name = "search_web" ->
            LET limit == IF intent = "quick_answer" THEN 3
                         ELSE IF intent = "deep_research" THEN 10 ELSE 5
            IN  IF context.search_attempts > 1
                THEN <<<<"limit", NumStr(IF limit * 2 < 15 THEN limit * 2 ELSE 15)>>>>
                ELSE <<<<"limit", NumStr(limit)>>>>
      [] tool_name = "deep_dive" ->
            IF intent = "deep_research"
            THEN <<<<"depth", "10">>, <<"parallel", "True">>>>
            ELSE IF intent = "quick_answer"
            THEN <<<<"depth", "3">>, <<"parallel", "False">>>>
            ELSE <<<<"depth", "5">>, <<"parallel", "True">>>>
      [] tool_name = "find_related" ->
            IF intent = "discovery" THEN <<<<"limit", "10">>>> ELSE <<<<"limit", "5">>>>
      [] OTHER -> <<>>

\* WorkflowStep, with `fallback_step is not None` in place of the fallback.
WorkflowStep(tool, purpose, required_inputs, has_fallback, parallel_group) ==
    [tool |-> tool, purpose |-> purpose, required_inputs |-> required_inputs,
     has_fallback |-> has_fallback, parallel_group |-> parallel_group]

\* build_dynamic_workflow(primary_intent, context), by primary_intent.intent.
BuildDynamicWorkflow(intent, context) ==
    CASE intent = "quick_answer" ->
            IF HasUrls(context)
            THEN <<WorkflowStep("scrape_url", "Extract content from known URL",
                                <<<<"url", context.known_urls[1]>>>>, FALSE, None)>>
            ELSE <<WorkflowStep("search_web", "Find top result",
                                <<<<"query", "">>, <<"limit", "3">>>>, TRUE, None),
                   WorkflowStep("scrape_url", "Get content from best result",
                                <<<<"url", "">>>>, TRUE, None)>>
      [] intent = "deep_research" ->
            (IF ~HasUrls(context)
             THEN <<WorkflowStep("search_web", "Find authoritative sources",
                                 <<<<"query", "">>, <<"limit", "10">>>>, FALSE, None)>>
             ELSE <<>>)
            \o <<WorkflowStep("deep_dive", "Comprehensive multi-source research",
                              <<<<"topic", "">>, <<"depth", "10">>, <<"parallel", "True">>>>,
                              FALSE, None)>>
      [] intent = "documentation" ->
            IF HasUrls(context)
            THEN <<WorkflowStep("validate_url", "Check documentation URL",
                                <<<<"url", context.known_urls[1]>>>>, FALSE, None),
                   WorkflowStep("crawl_docs", "Ingest documentation",
                                <<<<"root_url", context.known_urls[1]>>, <<"max_pages", "25">>>>,
                                FALSE, None)>>
            ELSE <<WorkflowStep("search_web", "Find official documentation",
                                <<<<"query", "">>, <<"limit", "5">>>>, FALSE, None),
                   WorkflowStep("crawl_docs", "Ingest found documentation",
                                <<<<"root_url", "">>, <<"max_pages", "25">>>>, FALSE, None)>>
      [] intent = "comparison" ->
            (IF Len(context.known_urls) >= 2
             THEN <<WorkflowStep("scrape_url", "Get first source",
                                 <<<<"url", context.known_urls[1]>>>>, FALSE, Some(1)),
                    WorkflowStep("scrape_url", "Get second source",
                                 <<<<"url", context.known_urls[2]>>>>, FALSE, Some(1))>>
             ELSE <<WorkflowStep("search_web", "Find sources to compare",
                                 <<<<"query", "">>, <<"limit", "5">>>>, FALSE, None)>>)
            \o <<WorkflowStep("compare_sources", "Analyze differences and consensus",
                              <<<<"topic", "">>, <<"sources", "[]">>>>, FALSE, None)>>
      [] intent = "discovery" ->
            IF HasUrls(context)
            THEN <<WorkflowStep("find_related", "Discover related resources",
                                <<<<"url", context.known_urls[1]>>, <<"limit", "10">>>>,
                                FALSE, None)>>
            ELSE <<WorkflowStep("search_web", "Find initial resource",
                                <<<<"query", "">>, <<"limit", "5">>>>, FALSE, None),
                   WorkflowStep("find_related", "Discover related pages",
                                <<<<"url", "">>, <<"limit", "10">>>>, FALSE, None)>>
      [] intent = "monitoring" ->
            <<WorkflowStep("monitor_changes", "Check for content updates",
                           <<<<"url", "">>, <<"previous_hash", "None">>>>, FALSE, None)>>
      [] intent = "validation" ->
            <<WorkflowStep("validate_url", "Check URL accessibility",
                           <<<<"url", "">>>>, FALSE, None)>>

\* intent_scores[1:3] if len(intent_scores) > 1 else []
SecondaryIntents(intent_scores) ==
    SubSeq(intent_scores, 2, IF Len(intent_scores) < 3 THEN Len(intent_scores) ELSE 3)

\* The entry of workflow_with_params for step i.
StepWithParams(i, step, intent, context) ==
    [step |-> i, tool |-> step.tool, purpose |-> step.purpose,
     suggested_parameters |-> SuggestParameters(step.tool, intent, context),
     required_inputs |-> step.required_inputs, has_fallback |-> step.has_fallback,
     parallel_group |-> step.parallel_group]

\* The dict suggest_tools returns for the classified intents and the workflow
\* built for the first of them, without "tool_details", a copy of the static
\* TOOL_REGISTRY entry of each step, and "explanation", a sentence restating
\* the primary intent and the two lengths.
Suggestion(primary_intent, secondary_intents, workflow, context) ==
    [primary_intent |->
        [type |-> primary_intent.intent, confidence |-> primary_intent.confidence,
         reasons |-> primary_intent.reasons, keywords |-> primary_intent.keywords_matched],
     secondary_intents |->
        [i \in 1..Len(secondary_intents) |->
            [type |-> secondary_intents[i].intent,
             confidence |-> secondary_intents[i].confidence,
             reasons |-> secondary_intents[i].reasons]],
     workflow |->
        [i \in 1..Len(workflow) |->
            StepWithParams(i, workflow[i], primary_intent.intent, context)],
     context_notes |->
        [has_known_urls |-> HasUrls(context), failed_tools |-> context.failed_tools,
         failure_reasons |-> context.failure_reasons,
         search_attempts |-> context.search_attempts]]

\* suggest_tools(query, context), from the result of classify_intent.
SuggestToolsFrom(scores, context) ==
    Suggestion(scores[1], SecondaryIntents(scores),
               BuildDynamicWorkflow(scores[1].intent, context), context)

\* suggest_tools(query, context)
SuggestTools(query, context) == SuggestToolsFrom(ClassifyIntent(query, context), context)

(***************************************************************************)
(* The research context under update_context_from_result and mark_failed.  *)
(***************************************************************************)

PyList(items) == [type |-> "list", value |-> items]

PyDict(items) == [type |-> "dict", value |-> items]

PyStr(s) == [type |-> "str", value |-> s]

\* key in d
HasKey(d, key) == \E i \in 1..Len(d) : d[i][1] = key

\* d[key]
DictGet(d, key) == d[CHOOSE i \in 1..Len(d) : d[i][1] = key][2]

\* d[key] = value: a known key keeps its place.
DictSet(d, key, value) ==
    IF HasKey(d, key)
    THEN [i \in 1..Len(d) |-> IF d[i][1] = key THEN <<key, value>> ELSE d[i]]
    ELSE Append(d, <<key, value>>)

\* ResearchContext.add_result
AddResult(context, tool, result_value) ==
    [context EXCEPT !.previous_results = DictSet(@, tool, result_value)]

\* MarkFailedOp that lists the tool once per failure.
MarkFailedAgain(context, tool, reason) ==
    [context EXCEPT !.failed_tools = Append(@, tool),
                    !.failure_reasons = DictSet(@, tool, reason)]

\* ResearchContext.mark_failed
MarkFailedOp(context, tool, reason) ==
    [context EXCEPT !.failed_tools = IF InList(@, tool) THEN @ ELSE Append(@, tool),
                    !.failure_reasons = DictSet(@, tool, reason)]

\* The loop over the items of a search result.
RECURSIVE ExtractUrls(_, _)
ExtractUrls(known_urls, items) ==
    IF items = <<>> THEN known_urls
    ELSE IF /\ Head(items).type = "dict"
            /\ HasKey(Head(items).value, "url")
            /\ ~InList(known_urls, DictGet(Head(items).value, "url"))
    THEN ExtractUrls(Append(known_urls, DictGet(Head(items).value, "url")), Tail(items))
    ELSE ExtractUrls(known_urls, Tail(items))

\* update_context_from_result(context, tool, result, success, error_message)
UpdateContext(context, tool, result_value, success, error_message) ==
    IF success
    THEN IF tool = "search_web" /\ result_value.type = "list"
         THEN [AddResult(context, tool, result_value) EXCEPT
                  !.known_urls = ExtractUrls(@, result_value.value),
                  !.search_attempts = @ + 1]
         ELSE AddResult(context, tool, result_value)
    ELSE MarkFailedOp(context, tool, IF error_message # "" THEN error_message ELSE "Unknown error")


\* A call of update_context_from_result or ResearchContext.mark_failed.
OrchCall(op, tool, result_value, success, error_message) ==
    [op |-> op, tool |-> tool, result |-> result_value, success |-> success,
     error_message |-> error_message]

NoOrchCall == OrchCall("none", "", PyStr(""), FALSE, "")

\* No second coroutine.
NoFrame == <<>>


(***************************************************************************)
(* State                                                                   *)
(***************************************************************************)
VARIABLES
    call,            \* the tool call being served: the tool and its arguments
    pc,              \* where the tool's coroutine stands
    result,          \* what the call returned or raised
    \* locals of crawl_docs
    max_pages,       \* the page budget, after clamping
    visited,         \* set of URLs
    to_visit,        \* list of URLs
    pages,           \* list of <<url, title, content>>
    root_domain,
    url,             \* the URL popped by the current iteration
    \* locals of ScraperAdapter.fetch
    fpc,             \* "idle", or the await fetch is suspended at
    f_url,
    retry,
    attempt,
    last_error,
    \* the environment
    version,         \* the version of the watched pages being served
    clock,           \* datetime.now(), in seconds
    \* records of what happened
    attempts_made,   \* iterations of fetch's retry loop begun by the current fetch
    strategy_calls,  \* <<attempt, strategy>> for every strategy call of the current fetch
    sleeps,          \* the delays of the asyncio.sleep calls of the current fetch
    won,             \* the strategy that produced the current fetch's Document
    fetch_calls,     \* the URLs passed to ScraperAdapter.fetch, in order
    fetch_ok,        \* the URLs for which fetch returned a Document, in order
    dequeued,        \* the URLs crawl_docs popped from to_visit, in order
    link_ok,         \* the URLs whose links crawl_docs extracted, in order
    history,         \* one record per finished monitor_changes call
    \* compare_sources and deep_dive
    gcall,           \* the call being served: the tool, topic, sources, depth, parallel
    targets,         \* the sources to fetch, in input order: [title, url]
    tasks,           \* one record per source: the state of its fetch coroutine
    first_done,      \* the index of the source whose fetch ended first, 0 if none yet
    \* extract_links and get_same_domain_links
    lcall,           \* the call being served: the function, url, filter_external
    html,            \* the anchors of the HTML to read, in document order: [href, text]
    links,           \* the list get_same_domain_links returned
    \* the orchestrator
    ctx,             \* the ResearchContext the caller holds
    oquery,          \* the query to classify
    ocall,           \* the last orchestrator function called, with its arguments
    intent_scores,   \* what classify_intent returned
    suggestion,      \* what suggest_tools returned
    list_searches,   \* the successful search_web updates whose result was a list
    n_calls,         \* the calls and assignments made on ctx
    direct_writes,   \* those made past update_context_from_result and mark_failed:
                     \* calls of add_result, assignments to search_attempts
    \* two crawl_docs coroutines on one event loop
    other,           \* the locals and the call of the coroutine that is not running
    interleaved      \* a coroutine was suspended while both were under way

toolVars == <<pc, result, max_pages, visited, to_visit, pages, root_domain, url,
              dequeued, link_ok, history>>

fetchVars == <<fpc, f_url, retry, attempt, last_error, attempts_made,
               strategy_calls, sleeps, won, fetch_calls, fetch_ok>>

envVars == <<version, clock>>

gatherVars == <<gcall, targets, tasks, first_done>>

linkVars == <<lcall, html, links>>

orchVars == <<ctx, oquery, ocall, intent_scores, suggestion, list_searches, n_calls,
              direct_writes>>

pairVars == <<other, interleaved>>

vars == <<call, toolVars, fetchVars, envVars, gatherVars, linkVars, orchVars, pairVars>>

(***************************************************************************)
(* The calls the model serves                                              *)
(***************************************************************************)
MaxRetry == 3

\* fetch's default: `retry: int = 2`, what scrape_url gets.
DefaultRetry == 2

\* crawl_docs: `_adapter.fetch(url, retry=1)`.
CrawlRetry == 1

\* monitor_changes: `_scraper.fetch(url, retry=1)`.
MonitorRetry == 1

MaxMonitorCalls == 2

CrawlRoots ==
    {"https://a.example/docs", "https://s.example/docs", "https://s.example/docs?x=1",
     "https://s.example/login", "https://b.example/other", "https://c.example/p/0",
     "https://docs.d.example/home", "s.example/docs", "", "https://[s.example/docs",
     "https://[s.example/login"}

MaxPagesArgs == {0, 2, 5, 25}

\* The last three: a form feed, and two URLs whose host opens a bracket it
\* never closes, one of them without a scheme.
FetchUrls ==
    {"https://x.example", "https://x.example/gone", "http://s.example/docs",
     "", "   ", "x.example/page", "https:///docs", "//x.example/same",
     Chr(12), "https://[x.example/same", "//[x.example/same"}

MonitorUrls ==
    {"https://x.example", "https://x.example/same", "https://x.example/gone", "",
     "https://[x.example/same"}

\* A call carries every argument; a tool reads its own (retry is read by a
\* direct ScraperAdapter.fetch call alone).
Call(tool, u, m, fe, im, prev, r) ==
    [tool |-> tool, url |-> u, max_pages |-> m, follow_external |-> fe,
     include_metadata |-> im, previous_content |-> prev, retry |-> r]

CrawlCalls ==
    {Call("crawl_docs", u, m, fe, FALSE, None, 0) :
        u \in CrawlRoots, m \in MaxPagesArgs, fe \in BOOLEAN}

ScrapeCalls ==
    {Call("scrape_url", u, 5, FALSE, im, None, 0) : u \in FetchUrls, im \in BOOLEAN}

FetchCalls ==
    {Call("fetch", u, 5, FALSE, FALSE, None, r) : u \in FetchUrls, r \in 0..MaxRetry}

\* The digests a caller can hold for a page from earlier checks of its first version.
KnownDigests(u) ==
    IF Exists(u)
    THEN {Sha256Hex16(Crawl4aiDocument(u, 1, 0).content),
          Sha256Hex16(HttpxDocument(u, 1, 0).content)}
    ELSE {}

\* The previous_content arguments of a monitor_changes call: none, the empty
\* string, a digest of no page, a digest held from before, the digest of the
\* last report.
PreviousChoices(u, hist) ==
    {None, Some(""), Some("0123456789abcdef")}
      \cup {Some(d) : d \in KnownDigests(u)}
      \cup {hist[k].digest : k \in {j \in 1..Len(hist) : j = Len(hist)}}

MonitorCalls ==
    UNION {{Call("monitor_changes", u, 5, FALSE, FALSE, prev, 0) :
                prev \in PreviousChoices(u, <<>>)} : u \in MonitorUrls}

\* A call of compare_sources(topic, sources) or deep_dive(topic, depth, parallel=...).
GatherCall(tool, topic, sources, depth, parallel) ==
    [tool |-> tool, topic |-> topic, sources |-> sources, depth |-> depth,
     parallel |-> parallel]

\* No such call is served.
NoGatherCall == GatherCall("none", "", <<>>, 0, FALSE)

\* A call of extract_links or of get_same_domain_links; the latter reads no
\* filter_external.
LinkCall(tool, u, filter_external) ==
    [tool |-> tool, url |-> u, filter_external |-> filter_external]

NoLinkCall == LinkCall("none", "", FALSE)

NoResult == [kind |-> "none", value |-> ""]

Returned(text) == [kind |-> "ok", value |-> text]

Raised(exception, message) == [kind |-> exception, value |-> message]


Init ==
    /\ call \in CrawlCalls \cup ScrapeCalls \cup FetchCalls \cup MonitorCalls
    /\ pc = "called"
    /\ result = NoResult
    /\ max_pages = 0
    /\ visited = {}
    /\ to_visit = <<>>
    /\ pages = <<>>
    /\ root_domain = ""
    /\ url = ""
    /\ fpc = "idle"
    /\ f_url = ""
    /\ retry = 0
    /\ attempt = 0
    /\ last_error = None
    /\ version = 1
    /\ clock = 0
    /\ attempts_made = 0
    /\ strategy_calls = <<>>
    /\ sleeps = <<>>
    /\ won = "none"
    /\ fetch_calls = <<>>
    /\ fetch_ok = <<>>
    /\ dequeued = <<>>
    /\ link_ok = <<>>
    /\ history = <<>>
    /\ other = NoFrame
    /\ interleaved = FALSE
    /\ ctx = EmptyContext
    /\ oquery = ""
    /\ ocall = NoOrchCall
    /\ intent_scores = <<>>
    /\ suggestion = <<>>
    /\ list_searches = 0
    /\ n_calls = 0
    /\ direct_writes = 0
    /\ gcall = NoGatherCall
    /\ targets = <<>>
    /\ tasks = <<>>
    /\ first_done = 0
    /\ lcall = NoLinkCall
    /\ html = <<>>
    /\ links = <<>>

(***************************************************************************)
(* What each tool does with the outcome of its fetch.  These leave `url`,  *)
(* the loop variable of crawl_docs, to the step that uses them.            *)
(***************************************************************************)

\* The record of a finished monitor_changes call.
MonitorRecord(prev, status, digest, strategy, served) ==
    [previous_content |-> prev, status |-> status, digest |-> digest,
     strategy |-> strategy, version |-> served]

\* CrawlOnDocument going back to the head of the loop without awaiting the
\* link request.
CrawlOnDocumentDetached(doc) ==
    /\ visited' = visited \cup {url}
    /\ pages' = Append(pages, <<url, doc.title, doc.content>>)
    /\ pc' = "loop"
    /\ UNCHANGED <<result, max_pages, to_visit, root_domain, dequeued, link_ok,
                   history>>

\* crawl_docs after `doc = await _adapter.fetch(url, retry=1)`: the page is
\* recorded and the link request is sent.
CrawlOnDocument(doc) ==
    /\ visited' = visited \cup {url}
    /\ pages' = Append(pages, <<url, doc.title, doc.content>>)
    /\ pc' = "links"
    /\ UNCHANGED <<result, max_pages, to_visit, root_domain, dequeued, link_ok,
                   history>>

\* CrawlOnError without the `except`: the ScrapingError leaves crawl_docs.
CrawlOnErrorAborts ==
    /\ pc' = "done"
    /\ result' = Raised("ScrapingError", ScrapingErrorMessage(url, "Request timed out"))
    /\ UNCHANGED <<max_pages, visited, to_visit, pages, root_domain, dequeued, link_ok,
                   history>>

\* CrawlOnError without the `continue`: the loop never resumes.
CrawlOnErrorHangs ==
    /\ pc' = "fetching"
    /\ UNCHANGED <<result, max_pages, visited, to_visit, pages, root_domain, dequeued,
                   link_ok, history>>

\* crawl_docs: `except Exception: continue`.
CrawlOnError ==
    /\ pc' = "loop"
    /\ UNCHANGED <<result, max_pages, visited, to_visit, pages, root_domain,
                   dequeued, link_ok, history>>

\* scrape_url after its fetch returned.
ScrapeOnDocument(doc) ==
    /\ result' = Returned(ScrapeOutput(doc, call.include_metadata))
    /\ pc' = "done"
    /\ UNCHANGED <<max_pages, visited, to_visit, pages, root_domain, dequeued, link_ok,
                   history>>

\* scrape_url and a direct fetch: the exception goes to the caller.
PropagateError(error) ==
    /\ result' = error
    /\ pc' = "done"
    /\ UNCHANGED <<max_pages, visited, to_visit, pages, root_domain, dequeued, link_ok,
                   history>>

\* A direct ScraperAdapter.fetch call returns the Document; its content is kept.
FetchToolOnDocument(doc) ==
    /\ result' = Returned(doc.content)
    /\ pc' = "done"
    /\ UNCHANGED <<max_pages, visited, to_visit, pages, root_domain, dequeued, link_ok,
                   history>>

\* monitor_changes after its fetch returned: the report.
MonitorOnDocument(doc, strategy) ==
    LET lines == MonitorReportLines(doc, call.url, call.previous_content) IN
    /\ result' = Returned(Join("\n", lines))
    /\ history' = Append(history,
                         MonitorRecord(call.previous_content, ReportStatus(lines),
                                       Some(Sha256Hex16(doc.content)), strategy, version))
    /\ pc' = "done"
    /\ UNCHANGED <<max_pages, visited, to_visit, pages, root_domain, dequeued, link_ok>>

\* MonitorOnError answering a failed fetch with a report of no change.
MonitorOnErrorStale(message) ==
    /\ result' = Returned(UnchangedLine)
    /\ history' = Append(history,
                         MonitorRecord(call.previous_content, "Unchanged",
                                       call.previous_content, "none", version))
    /\ pc' = "done"
    /\ UNCHANGED <<max_pages, visited, to_visit, pages, root_domain, dequeued, link_ok>>

\* monitor_changes: `except Exception as e: raise ScrapingError(url, ...) from e`.
MonitorOnError(message) ==
    /\ result' = Raised("ScrapingError",
                        ScrapingErrorMessage(call.url, "Failed to monitor changes: " \o message))
    /\ history' = Append(history,
                         MonitorRecord(call.previous_content, "none", None, "none", version))
    /\ pc' = "done"
    /\ UNCHANGED <<max_pages, visited, to_visit, pages, root_domain, dequeued, link_ok>>

\* The caller's code after its `await _adapter.fetch(...)` returned `doc`.
OnFetchDocument(doc, strategy) ==
    IF call.tool = "crawl_docs" THEN CrawlOnDocument(doc)
    ELSE IF call.tool = "scrape_url" THEN ScrapeOnDocument(doc)
    ELSE IF call.tool = "monitor_changes" THEN MonitorOnDocument(doc, strategy)
    ELSE FetchToolOnDocument(doc)

\* The caller's code after its `await _adapter.fetch(...)` raised `error`;
\* error.value is str(e).
OnFetchError(error) ==
    IF call.tool = "crawl_docs" THEN CrawlOnError
    ELSE IF call.tool = "monitor_changes" THEN MonitorOnError(error.value)
    ELSE PropagateError(error)

(***************************************************************************)
(* ScraperAdapter.fetch                                                    *)
(***************************************************************************)

\* Whether fetch(u, retry=r) raises before it awaits anything: the URL is
\* rejected, or range(retry + 1) is empty.
FailsAtOnce(u, r) == FetchRejects(u) \/ FetchValueError(u) # "" \/ r + 1 <= 0

\* The exception fetch(u, retry=r) raises before it awaits anything: the
\* ScrapingError of its checks, the ValueError of urlparse, or the
\* ScrapingError after its empty loop.
FailsAtOnceError(u, r) ==
    IF FetchRejects(u) THEN Raised("ScrapingError", ScrapingErrorMessage(u, RejectReason(u)))
    ELSE IF FetchValueError(u) # "" THEN Raised("ValueError", FetchValueError(u))
    ELSE Raised("ScrapingError", ScrapingErrorMessage(u, "Failed after all retries: None"))

\* The message of the ScrapingError _fetch_with_httpx raises.
HttpxFailure(u) ==
    ScrapingErrorMessage(u, IF Exists(u) THEN "Request timed out" ELSE "HTTP 404")

\* FetchEnter calling the static strategy first.
FetchEnterStatic(u, r) ==
    /\ fetch_calls' = Append(fetch_calls, u)
    /\ sleeps' = <<>>
    /\ won' = "none"
    /\ f_url' = u
    /\ retry' = r
    /\ attempt' = 0
    /\ last_error' = None
    /\ IF FailsAtOnce(u, r)
       THEN /\ fpc' = "idle"
            /\ attempts_made' = 0
            /\ strategy_calls' = <<>>
       ELSE /\ fpc' = "httpx"
            /\ attempts_made' = 1
            /\ strategy_calls' = << <<0, "httpx">> >>
    /\ UNCHANGED fetch_ok

\* fetch(u, retry=r) from its first line to its first await (the call of the
\* rendering strategy in attempt 0), or to the raise that ends it at once.
FetchEnter(u, r) ==
    /\ fetch_calls' = Append(fetch_calls, u)
    /\ sleeps' = <<>>
    /\ won' = "none"
    /\ f_url' = u
    /\ retry' = r
    /\ attempt' = 0
    /\ last_error' = None
    /\ IF FailsAtOnce(u, r)
       THEN /\ fpc' = "idle"
            /\ attempts_made' = 0
            /\ strategy_calls' = <<>>
       ELSE /\ fpc' = "crawl4ai"
            /\ attempts_made' = 1
            /\ strategy_calls' = << <<0, "crawl4ai">> >>
    /\ UNCHANGED fetch_ok

\* A tool calls fetch(u, retry=r) and goes on as the outcome says.
CallFetch(u, r) ==
    /\ FetchEnter(u, r)
    /\ IF FailsAtOnce(u, r)
       THEN OnFetchError(FailsAtOnceError(u, r))
       ELSE /\ pc' = "fetching"
            /\ UNCHANGED <<result, max_pages, visited, to_visit, pages, root_domain,
                           dequeued, link_ok, history>>

\* fetch returns `doc`, produced by `strategy`.
FetchReturns(doc, strategy) ==
    /\ fpc' = "idle"
    /\ won' = strategy
    /\ fetch_ok' = Append(fetch_ok, f_url)
    /\ UNCHANGED <<f_url, retry, attempt, last_error, attempts_made, strategy_calls,
                   sleeps, fetch_calls>>
    /\ OnFetchDocument(doc, strategy)

\* _fetch_with_crawl4ai returns a Document: fetch returns it.
Crawl4aiSucceeds ==
    /\ fpc = "crawl4ai"
    /\ Exists(f_url)
    /\ FetchReturns(Crawl4aiDocument(f_url, version, clock), "crawl4ai")
    /\ UNCHANGED <<call, gatherVars, linkVars, orchVars, pairVars, url, envVars>>

\* _fetch_with_crawl4ai raises: fetch falls back to _fetch_with_httpx.
Crawl4aiFails ==
    /\ fpc = "crawl4ai"
    /\ fpc' = "httpx"
    /\ last_error' = Some(ScrapingErrorMessage(f_url, "Crawl failed"))
    /\ strategy_calls' = Append(strategy_calls, <<attempt, "httpx">>)
    /\ UNCHANGED <<f_url, retry, attempt, attempts_made, sleeps, won, fetch_calls, fetch_ok>>
    /\ UNCHANGED <<call, gatherVars, linkVars, orchVars, pairVars, toolVars, envVars>>

\* _fetch_with_httpx returns a Document: fetch returns it.
HttpxSucceeds ==
    /\ fpc = "httpx"
    /\ Exists(f_url)
    /\ FetchReturns(HttpxDocument(f_url, version, clock), "httpx")
    /\ UNCHANGED <<call, gatherVars, linkVars, orchVars, pairVars, url, envVars>>

\* LastAttempt one attempt early.
LastAttemptEarly(a, r) == a + 1 >= r

\* `if attempt == retry`
LastAttempt(a, r) == a = r

\* _fetch_with_httpx raises ScrapingError: on the last attempt fetch raises it
\* again, otherwise it sleeps 2**attempt.
HttpxFails ==
    /\ fpc = "httpx"
    /\ IF LastAttempt(attempt, retry)
       THEN /\ fpc' = "idle"
            /\ UNCHANGED <<last_error, sleeps>>
            /\ OnFetchError(Raised("ScrapingError", HttpxFailure(f_url)))
       ELSE /\ fpc' = "sleep"
            /\ last_error' = Some(HttpxFailure(f_url))
            /\ sleeps' = Append(sleeps, Backoff(attempt))
            /\ UNCHANGED toolVars
    /\ UNCHANGED <<f_url, retry, attempt, attempts_made, strategy_calls, won,
                   fetch_calls, fetch_ok>>
    /\ UNCHANGED <<call, gatherVars, linkVars, orchVars, pairVars, url, envVars>>

\* asyncio.sleep returns: the next iteration of `for attempt in range(retry + 1)`
\* begins with the call of the rendering strategy.
BackoffElapsed ==
    /\ fpc = "sleep"
    /\ IF attempt + 1 < retry + 1
       THEN /\ fpc' = "crawl4ai"
            /\ attempt' = attempt + 1
            /\ attempts_made' = attempts_made + 1
            /\ strategy_calls' = Append(strategy_calls, <<attempt + 1, "crawl4ai">>)
            /\ UNCHANGED toolVars
       ELSE \* the loop ends: raise ScrapingError(url, "Failed after all retries: ...")
            /\ fpc' = "idle"
            /\ UNCHANGED <<attempt, attempts_made, strategy_calls>>
            /\ OnFetchError(Raised("ScrapingError",
                                   ScrapingErrorMessage(f_url, "Failed after all retries: "
                                                                 \o last_error[1])))
    /\ UNCHANGED <<f_url, retry, last_error, sleeps, won, fetch_calls, fetch_ok>>
    /\ UNCHANGED <<call, gatherVars, linkVars, orchVars, pairVars, url, envVars>>


(***************************************************************************)
(* crawl_docs                                                              *)
(***************************************************************************)

\* crawl_docs from its first line to the head of its loop.
StartCrawl ==
    /\ pc = "called"
    /\ call.tool = "crawl_docs"
    /\ max_pages' = ClampPages(call.max_pages)
    /\ visited' = {}
    /\ to_visit' = <<call.url>>
    /\ pages' = <<>>
    /\ root_domain' = urlparse(call.url).netloc
    /\ IF urlparse(call.url).error # ""
       THEN \* `root_domain = urlparse(root_url).netloc` raises ValueError
            /\ result' = Raised("ValueError", urlparse(call.url).error)
            /\ pc' = "done"
       ELSE /\ pc' = "loop"
            /\ UNCHANGED result
    /\ UNCHANGED <<call, gatherVars, linkVars, orchVars, pairVars, url, dequeued, link_ok,
                   history, fetchVars, envVars>>

\* The coroutine is at the head of the loop: it came there without awaiting
\* ("loop"), or it is leaving `async with httpx.AsyncClient(...)` after the
\* link step, where the client's exit is awaited and may suspend it ("closing").
AtLoopHead == pc \in {"loop", "closing"}

\* `while to_visit and len(visited) < max_pages`
LoopCondition == to_visit # <<>> /\ Cardinality(visited) < max_pages

\* CrawlNext fetching with fetch's default retry.
CrawlNextDefaultRetry ==
    /\ AtLoopHead
    /\ LoopCondition
    /\ LET u == Head(to_visit) IN
       /\ to_visit' = Tail(to_visit)
       /\ url' = u
       /\ dequeued' = Append(dequeued, u)
       /\ IF u \in visited \/ IsSkipped(u)
          THEN /\ pc' = "loop"
               /\ UNCHANGED fetchVars
          ELSE /\ FetchEnter(u, DefaultRetry)
               /\ pc' = IF FailsAtOnce(u, DefaultRetry) THEN "loop" ELSE "fetching"
    /\ UNCHANGED <<call, gatherVars, linkVars, orchVars, pairVars, result, max_pages, visited,
                   pages, root_domain, link_ok, history, envVars>>

\* One iteration of the loop up to its first await: the URL is popped, dropped
\* when it is visited or skip-listed, and otherwise fetched; a fetch that
\* raises at once is caught by `except Exception: continue`.
CrawlNext ==
    /\ AtLoopHead
    /\ LoopCondition
    /\ LET u == Head(to_visit) IN
       /\ to_visit' = Tail(to_visit)
       /\ url' = u
       /\ dequeued' = Append(dequeued, u)
       /\ IF u \in visited \/ IsSkipped(u)
          THEN /\ pc' = "loop"
               /\ UNCHANGED fetchVars
          ELSE /\ FetchEnter(u, CrawlRetry)
               /\ pc' = IF FailsAtOnce(u, CrawlRetry) THEN "loop" ELSE "fetching"
    /\ UNCHANGED <<call, gatherVars, linkVars, orchVars, pairVars, result, max_pages, visited,
                   pages, root_domain, link_ok, history, envVars>>

\* crawl_docs after `links = _adapter.get_same_domain_links(...)`: the links
\* are filtered into to_visit, or the ValueError goes to `except Exception: continue`.
FilterLinks(found) ==
    IF found.error # ""
    THEN UNCHANGED <<to_visit, link_ok>>
    ELSE /\ to_visit' = EnqueueLinks(to_visit, visited, found.links,
                                     call.follow_external, root_domain)
         /\ link_ok' = Append(link_ok, url)

\* The link request `await client.get(url)` answers: the page's same-domain
\* links are extracted and filtered into to_visit.  The coroutine then leaves
\* `async with httpx.AsyncClient(...)`, whose exit it awaits.
LinksArrive ==
    /\ pc = "links"
    /\ FilterLinks(get_same_domain_links(Page(url, version).hrefs, url))
    /\ pc' = "closing"
    /\ UNCHANGED <<call, gatherVars, linkVars, orchVars, pairVars, result, max_pages, visited,
                   pages, root_domain, url, dequeued, history, fetchVars, envVars>>

\* LinksFail dropping the page whose links could not be read.
LinksFailDropsPage ==
    /\ pc = "links"
    /\ pages' = SubSeq(pages, 1, Len(pages) - 1)
    /\ pc' = "closing"
    /\ UNCHANGED <<call, gatherVars, linkVars, orchVars, pairVars, result, max_pages, visited,
                   to_visit, root_domain, url, dequeued, link_ok, history, fetchVars, envVars>>

\* The link request raises, or asyncio.timeout(10) expires: `except Exception: continue`.
LinksFail ==
    /\ pc = "links"
    /\ pc' = "closing"
    /\ UNCHANGED <<call, gatherVars, linkVars, orchVars, pairVars, result, max_pages, visited,
                   to_visit, pages, root_domain, url, dequeued, link_ok, history, fetchVars,
                   envVars>>

\* The loop is over: CrawlError when no page was fetched, the combined document otherwise.
CrawlFinish ==
    /\ AtLoopHead
    /\ ~LoopCondition
    /\ result' = IF pages = <<>>
                 THEN Raised("CrawlError",
                             CrawlErrorMessage(call.url, "No pages could be crawled"))
                 ELSE Returned(CombinedDocument(call.url, pages, max_pages))
    /\ pc' = "done"
    /\ UNCHANGED <<call, gatherVars, linkVars, orchVars, pairVars, max_pages, visited, to_visit,
                   pages, root_domain, url, dequeued, link_ok, history, fetchVars, envVars>>

(***************************************************************************)
(* scrape_url, monitor_changes, and a direct call of ScraperAdapter.fetch  *)
(***************************************************************************)

\* scrape_url: `doc = await _adapter.fetch(url)`.
StartScrape ==
    /\ pc = "called"
    /\ call.tool = "scrape_url"
    /\ CallFetch(call.url, DefaultRetry)
    /\ UNCHANGED <<call, gatherVars, linkVars, orchVars, pairVars, url, envVars>>

\* monitor_changes: `doc = await _scraper.fetch(url, retry=1)`.
StartMonitor ==
    /\ pc = "called"
    /\ call.tool = "monitor_changes"
    /\ CallFetch(call.url, MonitorRetry)
    /\ UNCHANGED <<call, gatherVars, linkVars, orchVars, pairVars, url, envVars>>

\* ScraperAdapter.fetch(url, retry=r) called directly.
StartFetch ==
    /\ pc = "called"
    /\ call.tool = "fetch"
    /\ CallFetch(call.url, call.retry)
    /\ UNCHANGED <<call, gatherVars, linkVars, orchVars, pairVars, url, envVars>>

\* The caller of monitor_changes checks the same URL again, later.
MonitorAgain ==
    /\ pc = "done"
    /\ call.tool = "monitor_changes"
    /\ Len(history) < MaxMonitorCalls
    /\ \E prev \in PreviousChoices(call.url, history) :
          call' = [call EXCEPT !.previous_content = prev]
    /\ pc' = "called"
    /\ result' = NoResult
    /\ clock' = clock + 1
    /\ UNCHANGED <<max_pages, visited, to_visit, pages, root_domain, url, dequeued,
                   link_ok, history, fetchVars, version, gatherVars, linkVars,
                   orchVars, pairVars>>

\* The watched page is edited between two checks.
PageEdited ==
    /\ pc = "done"
    /\ call.tool = "monitor_changes"
    /\ Len(history) < MaxMonitorCalls
    /\ version = 1
    /\ version' = 2
    /\ UNCHANGED <<call, gatherVars, linkVars, orchVars, pairVars, toolVars, fetchVars, clock>>

Next ==
    \/ StartCrawl
    \/ CrawlNext
    \/ LinksArrive
    \/ LinksFail
    \/ CrawlFinish
    \/ StartScrape
    \/ StartMonitor
    \/ StartFetch
    \/ MonitorAgain
    \/ PageEdited
    \/ Crawl4aiSucceeds
    \/ Crawl4aiFails
    \/ HttpxSucceeds
    \/ HttpxFails
    \/ BackoffElapsed

Spec == Init /\ [][Next]_vars

\* The states in which no step is possible: no request is outstanding, the
\* tool's coroutine is not runnable, and the caller makes no further call.
Halted ==
    /\ fpc = "idle"
    /\ pc \notin {"called", "loop", "links", "closing"}
    /\ ~(pc = "done" /\ call.tool = "monitor_changes" /\ Len(history) < MaxMonitorCalls)

\* The event loop runs a coroutine whose awaited request has returned, and every
\* request returns (with a response, an error or a timeout): a step that stays
\* possible is taken.  This is WF_vars(Next) with ENABLED <<Next>>_vars written
\* out as ~Halted.
FairSpec == Spec /\ ([]<>Halted \/ []<><<Next>>_vars)

(***************************************************************************)
(* compare_sources and deep_dive: their pure parts                         *)
(***************************************************************************)

\* compare_sources: `_scraper.fetch(url, retry=1)`.
CompareRetry == 1

\* One coroutine of asyncio.gather, fetching one source.  fpc is "new" while
\* it is scheduled and has not run, the await it is suspended at ("crawl4ai", "httpx", "sleep")
\* while it runs, and "done" when it has returned; doc is the Document its
\* fetch returned, None when the fetch raised or has not returned yet.
Task(u, at, attempt_no, doc) ==
    [url |-> u, fpc |-> at, attempt |-> attempt_no, doc |-> doc]

Target(title, u) == [title |-> title, url |-> u]

\* `if len(sources) > 5: sources = sources[:5]`
CompareSources(sources) == IF Len(sources) > 5 THEN SubSeq(sources, 1, 5) ELSE sources

\* fetch_with_title(url): (url, title, content), (url, "Failed", None) when
\* the fetch raised.
FetchWithTitle(task) ==
    IF task.doc # None
    THEN <<task.url, task.doc[1].title, Some(task.doc[1].content)>>
    ELSE <<task.url, "Failed", None>>

\* The maximal runs of word characters of s, in order; cur is the run being read.
RECURSIVE WordRuns(_, _)
WordRuns(s, cur) ==
    IF s = "" THEN (IF cur = "" THEN <<>> ELSE <<cur>>)
    ELSE IF Head(s) \in WordChars THEN WordRuns(Tail(s), cur \o Head(s))
    ELSE (IF cur = "" THEN <<>> ELSE <<cur>>) \o WordRuns(Tail(s), "")

LowerLetters == {LowerChars[k] : k \in 1..26}

\* re.findall(r"\b[a-z]{4,}\b", content.lower()): the words made of at least
\* four letters and of nothing else.
KeyWordsOf(runs) ==
    SelectSeq(runs, LAMBDA w : Len(w) >= 4 /\ \A k \in 1..Len(w) : CharAt(w, k) \in LowerLetters)

KeyWords(content) == KeyWordsOf(WordRuns(Lower(content), ""))

\* all_words: the key words of every source that has content.
RECURSIVE AllWords(_)
AllWords(results) ==
    IF results = <<>> THEN <<>>
    ELSE (IF Truthy(Head(results)[3]) THEN <<KeyWords(Head(results)[3][1])>> ELSE <<>>)
         \o AllWords(Tail(results))

\* The number of occurrences of w in the list.
Occurrences(list, w) == Cardinality({k \in 1..Len(list) : list[k] = w})

RECURSIVE SumOccurrences(_, _)
SumOccurrences(lists, w) ==
    IF lists = <<>> THEN 0
    ELSE Occurrences(Head(lists), w) + SumOccurrences(Tail(lists), w)

\* The position of the first occurrence of w in the list.
FirstIndex(list, w) == CHOOSE k \in 1..Len(list) : list[k] = w /\ \A j \in 1..(k - 1) : list[j] # w

\* freq.most_common(10): the common terms by falling count, terms of equal
\* count in the order the Counter first saw them, which is their order in the
\* first source that has content.
TopCommon(all_words) ==
    LET common == {w \in {all_words[1][k] : k \in 1..Len(all_words[1])} :
                      \A n \in 1..Len(all_words) : Occurrences(all_words[n], w) > 0}
        Before(a, b) ==
            \/ SumOccurrences(all_words, a) > SumOccurrences(all_words, b)
            \/ /\ SumOccurrences(all_words, a) = SumOccurrences(all_words, b)
               /\ FirstIndex(all_words[1], a) < FirstIndex(all_words[1], b)
        Rank(w) == 1 + Cardinality({v \in common : Before(v, w)})
        shown == IF Cardinality(common) < 10 THEN Cardinality(common) ELSE 10
    IN  [r \in 1..shown |->
            LET w == CHOOSE v \in common : Rank(v) = r
            IN  <<w, SumOccurrences(all_words, w)>>]

\* The lines of the "Content Analysis" part of the comparison report.
AnalysisLines(all_words) ==
    IF all_words = <<>> THEN <<>>
    ELSE LET top == TopCommon(all_words) IN
         (IF top = <<>> THEN <<>>
          ELSE <<"### Common Topics\n">>
               \o [k \in 1..Len(top) |->
                     "- **" \o top[k][1] \o "**: mentioned " \o NumStr(top[k][2])
                       \o " times across sources"])
         \o <<"\n### Source-Specific Content\n">>

\* The report compare_sources returns; results are the tuples of
\* fetch_with_title in the order asyncio.gather returns them.  The source
\* marks a source with a check mark or a cross, written "v" and "x" here.
CompareReport(topic, results) ==
    Join("\n",
         <<"# Source Comparison: " \o topic \o "\n", "## Sources\n">>
         \o [i \in 1..Len(results) |->
               NumStr(i) \o ". " \o (IF Truthy(results[i][3]) THEN "v" ELSE "x")
                 \o " [" \o results[i][2] \o "](" \o results[i][1] \o ")"]
         \o <<"\n## Content Analysis\n">>
         \o AnalysisLines(AllWords(results))
         \o [k \in 1..(2 * Len(results)) |->
               LET i == (k + 1) \div 2 IN
               IF k % 2 = 1
               THEN "\n#### Source " \o NumStr(i) \o ": " \o results[i][2] \o "\n"
               ELSE IF Truthy(results[i][3])
                    THEN Strip(Prefix(results[i][3][1], 500)) \o "...\n"
                    ELSE "*Failed to fetch*\n"])

\* depth = min(max(depth, 1), 10)
ClampDepth(d) == IF d < 1 THEN 1 ELSE IF d > 10 THEN 10 ELSE d

\* What the search engine holds for a topic: [title, href] records.
SearchCatalog(topic) ==
    IF topic = "docs"
    THEN << Target("A Docs", "https://a.example/docs"),
            Target("A Intro", "https://a.example/docs/intro"),
            Target("No link", ""),
            Target("Bare", "x.example/page"),
            Target("Gone", "https://s.example/missing"),
            Target("X", "https://x.example"),
            Target("B", "https://b.example/other") >>
    ELSE IF topic = "brackets"
    THEN << Target("A Docs", "https://a.example/docs"),
            Target("Open", "https://[d.example/x") >>
    ELSE <<>>

\* DDGAdapter.search(query, limit) when the engine answers: at most `limit`
\* results, those without a URL left out.
SearchAnswer(topic, limit) ==
    SelectSeq(Prefix(SearchCatalog(topic), limit), LAMBDA r : r.url # "")

\* What deep_dive's filter leaves or raises: the results, or the message of
\* the ValueError of urlparse.
Filtered(results) == [results |-> results, error |-> ""]

FilterError(message) == [results |-> <<>>, error |-> message]

RECURSIVE FilterResults(_, _, _, _)
\* The loop body after `urlparse(r.url)`, and the rest of the loop.
FilterParsed(results, seen_domains, filtered, depth, parsed) ==
    IF parsed.error # "" THEN FilterError(parsed.error)
    ELSE IF parsed.netloc \notin seen_domains /\ Len(filtered) < depth
    THEN FilterResults(Tail(results), seen_domains \cup {parsed.netloc},
                       Append(filtered, Head(results)), depth)
    ELSE FilterResults(Tail(results), seen_domains, filtered, depth)

\* deep_dive's filter: one result per domain, at most `depth` results.
FilterResults(results, seen_domains, filtered, depth) ==
    IF results = <<>> THEN Filtered(filtered)
    ELSE FilterParsed(results, seen_domains, filtered, depth, urlparse(Head(results).url))

\* SearchError.__init__: the exception's message.
SearchErrorMessage(query, reason) == "Search failed for '" \o query \o "': " \o reason

\* The content fetch_source returns for a fetched Document: the text after the
\* attribution header, stripped, cut at 3000 characters.
SourceContent(doc) ==
    LET content == Strip(StripHeader(doc.content)) IN
    IF Len(content) > 3000
    THEN Prefix(content, 3000) \o "\n\n*[Content truncated...]*"
    ELSE content

\* fetch_source(i, r): (i, title, url, content), content None when the fetch raised.
FetchSource(i, r, task) ==
    <<i, r.title, r.url, IF task.doc # None THEN Some(SourceContent(task.doc[1])) ELSE None>>

\* The number of fetched tuples with content.
Successful(fetched) == Cardinality({k \in 1..Len(fetched) : Truthy(fetched[k][4])})

\* The report deep_dive returns for its filtered results and the fetched tuples.
DeepDiveReport(topic, results, fetched) ==
    Join("\n",
         <<"# Research: " \o topic \o "\n",
           "*Analyzed " \o NumStr(Len(results)) \o " sources*\n",
           "## Sources\n">>
         \o [i \in 1..Len(results) |->
               NumStr(i) \o ". [" \o results[i].title \o "](" \o results[i].url \o ")"]
         \o <<"\n## Content\n">>
         \o [k \in 1..(4 * Len(fetched)) |->
               LET f == fetched[(k + 3) \div 4] IN
               CASE k % 4 = 1 -> "### Source " \o NumStr(f[1]) \o ": " \o f[2] \o "\n"
                 [] k % 4 = 2 -> "> " \o f[3] \o "\n"
                 [] k % 4 = 3 -> IF Truthy(f[4]) THEN f[4][1] ELSE "*Failed to fetch content*"
                 [] OTHER -> "\n"]
         \o <<"---\n\n*Successfully retrieved " \o NumStr(Successful(fetched)) \o "/"
                \o NumStr(Len(results)) \o " sources*">>)

(***************************************************************************)
(* compare_sources and deep_dive: asyncio.gather over one fetch per source *)
(***************************************************************************)
MaxDepthArg == 3

CompareSourceLists ==
    { <<"https://x.example">>,
      <<"https://a.example/docs", "https://b.example/other">>,
      <<"https://x.example", "https://x.example">>,
      <<"https://[x.example/same", "https://x.example/same">>,
      <<"https://x.example", "https://x.example/gone", "https://a.example/docs/intro">>,
      <<"", "x.example/page", "https://x.example/same", "https:///docs",
        "https://b.example/other", "https://a.example/docs">> }

CompareCalls ==
    {GatherCall("compare_sources", "docs", srcs, 0, TRUE) : srcs \in CompareSourceLists}

DeepDiveCalls ==
    {GatherCall("deep_dive", topic, <<>>, depth, parallel) :
        topic \in {"docs", "brackets", "nothing", " "}, depth \in 0..MaxDepthArg,
        parallel \in BOOLEAN}

GatherInit ==
    /\ gcall \in CompareCalls \cup DeepDiveCalls
    /\ call = Call(gcall.tool, "", 0, FALSE, FALSE, None, 0)
    /\ targets = <<>>
    /\ tasks = <<>>
    /\ first_done = 0
    /\ lcall = NoLinkCall
    /\ html = <<>>
    /\ links = <<>>
    /\ pc = "called"
    /\ result = NoResult
    /\ max_pages = 0
    /\ visited = {}
    /\ to_visit = <<>>
    /\ pages = <<>>
    /\ root_domain = ""
    /\ url = ""
    /\ fpc = "idle"
    /\ f_url = ""
    /\ retry = 0
    /\ attempt = 0
    /\ last_error = None
    /\ version = 1
    /\ clock = 0
    /\ attempts_made = 0
    /\ strategy_calls = <<>>
    /\ sleeps = <<>>
    /\ won = "none"
    /\ fetch_calls = <<>>
    /\ fetch_ok = <<>>
    /\ dequeued = <<>>
    /\ link_ok = <<>>
    /\ history = <<>>
    /\ other = NoFrame
    /\ interleaved = FALSE
    /\ ctx = EmptyContext
    /\ oquery = ""
    /\ ocall = NoOrchCall
    /\ intent_scores = <<>>
    /\ suggestion = <<>>
    /\ list_searches = 0
    /\ n_calls = 0
    /\ direct_writes = 0

\* What the gather tools leave alone.
gatherFrame ==
    <<call, gcall, linkVars, orchVars, pairVars, max_pages, visited, to_visit, pages, root_domain,
      url, dequeued, link_ok, history, fetchVars, envVars>>

\* The retry argument of the tool's fetch calls.
TaskRetry == IF gcall.tool = "compare_sources" THEN CompareRetry ELSE DefaultRetry

TaskDone(task) == task.fpc = "done"

AllDone(ts) == \A i \in 1..Len(ts) : TaskDone(ts[i])

\* A coroutine run from its start to its first await: suspended in the
\* rendering strategy of attempt 0, or returned when fetch raises at once.
StartedTask(u, r) ==
    IF FailsAtOnce(u, r) THEN Task(u, "done", 0, None) ELSE Task(u, "crawl4ai", 0, None)

\* deep_dive with parallel=False: `result = await fetch_source(i, r)` in a
\* loop.  The next coroutine starts when the one before it has returned.
RECURSIVE RunSequential(_, _)
RunSequential(ts, r) ==
    LET fresh == {i \in 1..Len(ts) : ts[i].fpc = "new"} IN
    IF fresh = {} \/ \E j \in 1..Len(ts) : ts[j].fpc \notin {"new", "done"}
    THEN ts
    ELSE LET k == CHOOSE i \in fresh : \A j \in fresh : i <= j
         IN  RunSequential([ts EXCEPT ![k] = StartedTask(ts[k].url, r)], r)

\* The coroutines when the tool suspends: all scheduled and none run, under
\* asyncio.gather; or run one after the other up to the first that awaits,
\* under the sequential loop.
StartTasks(results, parallel, r) ==
    IF parallel
    THEN [i \in 1..Len(results) |-> Task(results[i].url, "new", 0, None)]
    ELSE RunSequential([i \in 1..Len(results) |-> Task(results[i].url, "new", 0, None)], r)

\* What the tool returns when every coroutine has returned.
GatherReport(results, ts) ==
    IF gcall.tool = "compare_sources"
    THEN CompareReport(gcall.topic, [i \in 1..Len(ts) |-> FetchWithTitle(ts[i])])
    ELSE DeepDiveReport(gcall.topic, results,
                        [i \in 1..Len(ts) |-> FetchSource(i, results[i], ts[i])])

\* The index of the first coroutine that returned.
FirstDone(ts) ==
    IF first_done # 0 THEN first_done
    ELSE IF \E i \in 1..Len(ts) : TaskDone(ts[i])
         THEN CHOOSE i \in 1..Len(ts) :
                 TaskDone(ts[i]) /\ \A j \in 1..(i - 1) : ~TaskDone(ts[j])
         ELSE 0

\* The tool awaits the coroutines `ts` of `results`.  `await asyncio.gather(...)`
\* suspends it; the sequential loop suspends it while a coroutine awaits and
\* goes on to the report in the same step when the last has returned.
AwaitTasks(results, ts) ==
    /\ tasks' = ts
    /\ first_done' = FirstDone(ts)
    /\ IF ~gcall.parallel /\ AllDone(ts)
       THEN /\ pc' = "done"
            /\ result' = Returned(GatherReport(results, ts))
       ELSE /\ pc' = "gathering"
            /\ UNCHANGED result

\* The coroutines after coroutine i has returned.
AfterReturn(ts) == IF gcall.parallel THEN ts ELSE RunSequential(ts, TaskRetry)

\* fetch_with_title / fetch_source: the fetch of source i returned `doc`.
\* Under asyncio.gather the tool resumes in a later step (GatherReturns).
TaskReturns(i, doc) ==
    /\ first_done' = IF first_done = 0 THEN i ELSE first_done
    /\ LET ts == AfterReturn([tasks EXCEPT ![i] = Task(tasks[i].url, "done", tasks[i].attempt,
                                                       <<doc>>)])
       IN  /\ tasks' = ts
           /\ IF ~gcall.parallel /\ AllDone(ts)
              THEN /\ pc' = "done"
                   /\ result' = Returned(GatherReport(targets, ts))
              ELSE UNCHANGED <<pc, result>>

\* TaskRaises without the `except Exception`: the ScrapingError leaves the
\* coroutine, asyncio.gather raises it and the tool fails.
TaskRaisesThrough(i) ==
    /\ first_done' = IF first_done = 0 THEN i ELSE first_done
    /\ tasks' = [tasks EXCEPT ![i] = Task(tasks[i].url, "done", tasks[i].attempt, None)]
    /\ pc' = "done"
    /\ result' = Raised("ScrapingError", HttpxFailure(tasks[i].url))

\* fetch_with_title / fetch_source: the fetch of source i raised;
\* `except Exception: return (url, "Failed", None)`.
TaskRaises(i) ==
    /\ first_done' = IF first_done = 0 THEN i ELSE first_done
    /\ LET ts == AfterReturn([tasks EXCEPT ![i] = Task(tasks[i].url, "done", tasks[i].attempt,
                                                       None)])
       IN  /\ tasks' = ts
           /\ IF ~gcall.parallel /\ AllDone(ts)
              THEN /\ pc' = "done"
                   /\ result' = Returned(GatherReport(targets, ts))
              ELSE UNCHANGED <<pc, result>>

\* compare_sources from its first line to `await asyncio.gather(...)`.
StartCompare ==
    /\ pc = "called"
    /\ gcall.tool = "compare_sources"
    /\ IF Len(gcall.sources) < 2
       THEN /\ result' = Returned("Error: Need at least 2 sources to compare")
            /\ pc' = "done"
            /\ UNCHANGED <<targets, tasks, first_done>>
       ELSE LET srcs == CompareSources(gcall.sources)
                results == [i \in 1..Len(srcs) |-> Target("", srcs[i])]
            IN  /\ targets' = results
                /\ AwaitTasks(results, StartTasks(results, TRUE, CompareRetry))
    /\ UNCHANGED gatherFrame

\* deep_dive from its first line to the await of the search; an empty query
\* makes DDGAdapter.search raise at once.
StartDeepDive ==
    /\ pc = "called"
    /\ gcall.tool = "deep_dive"
    /\ IF Strip(gcall.topic) = ""
       THEN /\ result' = Raised("SearchError",
                                SearchErrorMessage(gcall.topic, "Query cannot be empty"))
            /\ pc' = "done"
       ELSE /\ pc' = "searching"
            /\ UNCHANGED result
    /\ UNCHANGED <<targets, tasks, first_done>>
    /\ UNCHANGED gatherFrame

\* deep_dive after its filter loop: the ValueError of urlparse leaves it, no
\* result ends it, and otherwise the fetches are awaited.
AfterFilter(found) ==
    IF found.error # ""
    THEN /\ result' = Raised("ValueError", found.error)
         /\ pc' = "done"
         /\ UNCHANGED <<targets, tasks, first_done>>
    ELSE IF found.results = <<>>
    THEN /\ result' = Returned("# Research: " \o gcall.topic
                                 \o "\n\nNo results found for this topic.")
         /\ pc' = "done"
         /\ UNCHANGED <<targets, tasks, first_done>>
    ELSE /\ targets' = found.results
         /\ AwaitTasks(found.results,
                       StartTasks(found.results, gcall.parallel, DefaultRetry))

\* The search answers: the results are filtered and their fetches are awaited.
SearchReturns ==
    /\ pc = "searching"
    /\ AfterFilter(FilterResults(SearchAnswer(gcall.topic, ClampDepth(gcall.depth) * 2),
                                 {}, <<>>, ClampDepth(gcall.depth)))
    /\ UNCHANGED gatherFrame

\* The event loop runs the coroutines asyncio.gather scheduled, in input
\* order: each runs to its first await, or returns when its fetch raises at once.
TasksBegin ==
    /\ pc = "gathering"
    /\ gcall.parallel
    /\ \A i \in 1..Len(tasks) : tasks[i].fpc = "new"
    /\ LET ts == [i \in 1..Len(tasks) |-> StartedTask(tasks[i].url, TaskRetry)]
       IN  /\ tasks' = ts
           /\ first_done' = FirstDone(ts)
    /\ UNCHANGED <<pc, result, targets>>
    /\ UNCHANGED gatherFrame

\* Every coroutine has returned: asyncio.gather hands their results to the
\* tool, which builds its report.
GatherReturns ==
    /\ pc = "gathering"
    /\ gcall.parallel
    /\ AllDone(tasks)
    /\ result' = Returned(GatherReport(targets, tasks))
    /\ pc' = "done"
    /\ UNCHANGED <<targets, tasks, first_done>>
    /\ UNCHANGED gatherFrame

\* The search fails: DDGAdapter.search raises SearchError, and so does deep_dive.
SearchFails ==
    /\ pc = "searching"
    /\ result' = Raised("SearchError", SearchErrorMessage(gcall.topic, "timed out"))
    /\ pc' = "done"
    /\ UNCHANGED <<targets, tasks, first_done>>
    /\ UNCHANGED gatherFrame

\* Coroutine i: _fetch_with_crawl4ai returns a Document.
TaskCrawl4aiSucceeds ==
    /\ pc = "gathering"
    /\ \E i \in 1..Len(tasks) :
          /\ tasks[i].fpc = "crawl4ai"
          /\ Exists(tasks[i].url)
          /\ TaskReturns(i, Crawl4aiDocument(tasks[i].url, version, clock))
    /\ UNCHANGED targets
    /\ UNCHANGED gatherFrame

\* Coroutine i: _fetch_with_crawl4ai raises, fetch falls back to _fetch_with_httpx.
TaskCrawl4aiFails ==
    /\ pc = "gathering"
    /\ \E i \in 1..Len(tasks) :
          /\ tasks[i].fpc = "crawl4ai"
          /\ tasks' = [tasks EXCEPT ![i].fpc = "httpx"]
    /\ UNCHANGED <<pc, result, targets, first_done>>
    /\ UNCHANGED gatherFrame

\* Coroutine i: _fetch_with_httpx returns a Document.
TaskHttpxSucceeds ==
    /\ pc = "gathering"
    /\ \E i \in 1..Len(tasks) :
          /\ tasks[i].fpc = "httpx"
          /\ Exists(tasks[i].url)
          /\ TaskReturns(i, HttpxDocument(tasks[i].url, version, clock))
    /\ UNCHANGED targets
    /\ UNCHANGED gatherFrame

\* Coroutine i: _fetch_with_httpx raises; fetch raises on its last attempt and
\* sleeps otherwise.
TaskHttpxFails ==
    /\ pc = "gathering"
    /\ \E i \in 1..Len(tasks) :
          /\ tasks[i].fpc = "httpx"
          /\ IF LastAttempt(tasks[i].attempt, TaskRetry)
             THEN TaskRaises(i)
             ELSE /\ tasks' = [tasks EXCEPT ![i].fpc = "sleep"]
                  /\ UNCHANGED <<pc, result, first_done>>
    /\ UNCHANGED targets
    /\ UNCHANGED gatherFrame

\* Coroutine i: asyncio.sleep returns, the next attempt begins.
TaskBackoffElapsed ==
    /\ pc = "gathering"
    /\ \E i \in 1..Len(tasks) :
          /\ tasks[i].fpc = "sleep"
          /\ tasks' = [tasks EXCEPT ![i].fpc = "crawl4ai", ![i].attempt = @ + 1]
    /\ UNCHANGED <<pc, result, targets, first_done>>
    /\ UNCHANGED gatherFrame

GatherNext ==
    \/ StartCompare
    \/ StartDeepDive
    \/ SearchReturns
    \/ SearchFails
    \/ TasksBegin
    \/ GatherReturns
    \/ TaskCrawl4aiSucceeds
    \/ TaskCrawl4aiFails
    \/ TaskHttpxSucceeds
    \/ TaskHttpxFails
    \/ TaskBackoffElapsed

GatherSpec == GatherInit /\ [][GatherNext]_vars

(***************************************************************************)
(* extract_links and get_same_domain_links applied to a page given by its  *)
(* anchors.  The text of an anchor is what get_text(strip=True) returns.   *)
(***************************************************************************)
MaxAnchors == 3

ATag(href, text) == [href |-> href, text |-> text]

\* The anchors the pages are made of: two anchors with the same target and
\* different texts, the same target written as an absolute URL, a target
\* that differs by its fragment alone, an anchor without text, an anchor to
\* another host, one that is not a web link, a relative target and a
\* target whose host opens a bracket it never closes.
AnchorPool ==
    { ATag("/a", "One"), ATag("/a", "Two"), ATag("https://s.example/a", "One"),
      ATag("/a#top", "one"), ATag("/b", ""), ATag("https://b.example/x", "Ext"),
      ATag("mailto:x@s.example", "Mail"), ATag("a", "Rel"),
      ATag("//[s.example/a", "Open") }

HtmlInputs == UNION {[1..n -> AnchorPool] : n \in 0..MaxAnchors}

LinkCalls ==
    {LinkCall("get_same_domain_links", u, FALSE) :
        u \in {"https://s.example/docs", "https://b.example/other"}}
    \cup {LinkCall("extract_links", "https://s.example/docs", fe) : fe \in BOOLEAN}

\* Python ord(c): strings compare by code point.
Ord(c) == CodePoint(c)

\* Python a < b on strings.
RECURSIVE StrLess(_, _)
StrLess(a, b) ==
    IF b = "" THEN FALSE
    ELSE IF a = "" THEN TRUE
    ELSE IF Head(a) = Head(b) THEN StrLess(Tail(a), Tail(b))
    ELSE Ord(Head(a)) < Ord(Head(b))

\* The message of the ValueError the loop body raises for an anchor, "" when
\* it raises none; joined is urljoin(url, href).
AnchorError(joined) == IF joined.error # "" THEN joined.error ELSE urlparse(joined.url).error

RECURSIVE AnchorsError(_, _)
FirstError(error, u, anchors) == IF error # "" THEN error ELSE AnchorsError(u, anchors)

\* The message of the first ValueError of the loop over the anchors.
AnchorsError(u, anchors) ==
    IF anchors = <<>> THEN ""
    ELSE FirstError(AnchorError(urljoin(u, Head(anchors).href)), u, Tail(anchors))

\* The message of the ValueError raised between the answer and the report:
\* by `base_domain = urlparse(url).netloc` or in the loop.
ExtractError(u, anchors) ==
    IF urlparse(u).error # "" THEN urlparse(u).error ELSE AnchorsError(u, anchors)

\* (absolute_url, text) of one anchor: `text = a.get_text(strip=True) or href`.
LinkPair(u, a) == <<urljoin(u, a.href).url, IF a.text # "" THEN a.text ELSE a.href>>

LinkPairs(u, anchors) == [k \in 1..Len(anchors) |-> LinkPair(u, anchors[k])]

IsWebLink(pair) == urlparse(pair[1]).scheme \in {"http", "https"}

\* internal_links and external_links after the loop over the anchors.
InternalLinks(u, anchors) ==
    SelectSeq(LinkPairs(u, anchors),
              LAMBDA p : IsWebLink(p) /\ urlparse(p[1]).netloc = urlparse(u).netloc)

ExternalLinks(u, anchors) ==
    SelectSeq(LinkPairs(u, anchors),
              LAMBDA p : IsWebLink(p) /\ urlparse(p[1]).netloc # urlparse(u).netloc)

\* sorted(set(pairs), key=lambda x: x[1].lower()): the distinct pairs by
\* rising key.  The sort is stable and a set of tuples of strings iterates in
\* an order that depends on the hash seed of the process, so pairs of equal
\* key come out in any order.
SortedSets(pairs) ==
    LET distinct == {pairs[k] : k \in 1..Len(pairs)}
        n == Cardinality(distinct)
    IN  {seq \in [1..n -> distinct] :
            /\ \A i, j \in 1..n : i # j => seq[i] # seq[j]
            /\ \A i \in 1..(n - 1) : ~StrLess(Lower(seq[i + 1][2]), Lower(seq[i][2]))}

LinkLines(pairs) ==
    [k \in 1..Len(pairs) |-> "- [" \o pairs[k][2] \o "](" \o pairs[k][1] \o ")"]

\* The report extract_links returns: n_internal is len(internal_links) before
\* the deduplication, internal and external are the sorted lists.
LinksReport(u, n_internal, internal, external, filter_external) ==
    Join("\n",
         <<"# Links from " \o u \o "\n",
           "## Internal Links (" \o NumStr(n_internal) \o ")\n">>
         \o LinkLines(SubSeq(internal, 1, IF Len(internal) < 50 THEN Len(internal) ELSE 50))
         \o (IF ~filter_external /\ external # <<>>
             THEN <<"\n## External Links (" \o NumStr(Len(external)) \o ")\n">>
                  \o LinkLines(SubSeq(external, 1,
                                      IF Len(external) < 30 THEN Len(external) ELSE 30))
             ELSE <<>>))

LinksInit ==
    /\ lcall \in LinkCalls
    /\ html \in HtmlInputs
    /\ links = <<>>
    /\ call = Call(lcall.tool, "", 0, FALSE, FALSE, None, 0)
    /\ gcall = NoGatherCall
    /\ targets = <<>>
    /\ tasks = <<>>
    /\ first_done = 0
    /\ pc = "called"
    /\ result = NoResult
    /\ max_pages = 0
    /\ visited = {}
    /\ to_visit = <<>>
    /\ pages = <<>>
    /\ root_domain = ""
    /\ url = ""
    /\ fpc = "idle"
    /\ f_url = ""
    /\ retry = 0
    /\ attempt = 0
    /\ last_error = None
    /\ version = 1
    /\ clock = 0
    /\ attempts_made = 0
    /\ strategy_calls = <<>>
    /\ sleeps = <<>>
    /\ won = "none"
    /\ fetch_calls = <<>>
    /\ fetch_ok = <<>>
    /\ dequeued = <<>>
    /\ link_ok = <<>>
    /\ history = <<>>
    /\ other = NoFrame
    /\ interleaved = FALSE
    /\ ctx = EmptyContext
    /\ oquery = ""
    /\ ocall = NoOrchCall
    /\ intent_scores = <<>>
    /\ suggestion = <<>>
    /\ list_searches = 0
    /\ n_calls = 0
    /\ direct_writes = 0

\* What the link functions leave alone.
linksFrame ==
    <<call, gatherVars, orchVars, pairVars, lcall, html, max_pages, visited, to_visit, pages,
      root_domain, url, dequeued, link_ok, history, fetchVars, envVars>>

\* ScraperAdapter.get_same_domain_links(html, base_url).
GetSameDomainLinks ==
    /\ pc = "called"
    /\ lcall.tool = "get_same_domain_links"
    /\ LET found == get_same_domain_links([k \in 1..Len(html) |-> html[k].href], lcall.url)
       IN  /\ links' = found.links
           /\ result' = IF found.error # "" THEN Raised("ValueError", found.error)
                        ELSE result
    /\ pc' = "done"
    /\ UNCHANGED linksFrame

\* extract_links from its first line to `await client.get(url)`.
StartExtractLinks ==
    /\ pc = "called"
    /\ lcall.tool = "extract_links"
    /\ pc' = "requesting"
    /\ UNCHANGED <<result, links>>
    /\ UNCHANGED linksFrame

\* The request answers with the page: the anchors are sorted into internal
\* and external links and the report is returned; a ValueError of urlparse or
\* urljoin is raised again as ScrapingError.
ExtractLinksAnswers ==
    /\ pc = "requesting"
    /\ IF ExtractError(lcall.url, html) # ""
       THEN result' = Raised("ScrapingError",
                             ScrapingErrorMessage(lcall.url,
                                 "Failed to extract links: "
                                   \o ExtractError(lcall.url, html)))
       ELSE \E internal \in SortedSets(InternalLinks(lcall.url, html)),
               external \in SortedSets(ExternalLinks(lcall.url, html)) :
               result' = Returned(LinksReport(lcall.url, Len(InternalLinks(lcall.url, html)),
                                              internal, external, lcall.filter_external))
    /\ pc' = "done"
    /\ UNCHANGED links
    /\ UNCHANGED linksFrame

\* The request fails: `except Exception as e: raise ScrapingError(url, ...)`.
ExtractLinksFails ==
    /\ pc = "requesting"
    /\ result' = Raised("ScrapingError",
                        ScrapingErrorMessage(lcall.url, "Failed to extract links: timed out"))
    /\ pc' = "done"
    /\ UNCHANGED links
    /\ UNCHANGED linksFrame

LinksNext ==
    \/ GetSameDomainLinks
    \/ StartExtractLinks
    \/ ExtractLinksAnswers
    \/ ExtractLinksFails

LinksSpec == LinksInit /\ [][LinksNext]_vars

(***************************************************************************)
(* classify_intent and suggest_tools on a query and a context              *)
(***************************************************************************)
MaxPhrases == 3

MaxAttempts == 3

\* What the queries are made of.
PhrasePool ==
    <<"only", "what is quick simple just", "in-depth", "research comprehensive thorough",
      "Compare", "FastAPI docs", "check if", "related", "verify">>

\* The phrases at the positions in S, in the order of the pool.
PhrasesAt(S) ==
    LET positions == SelectSeq([i \in 1..Len(PhrasePool) |-> i], LAMBDA i : i \in S)
    IN  [k \in 1..Len(positions) |-> PhrasePool[positions[k]]]

Queries ==
    {Join(" ", PhrasesAt(S)) :
        S \in {T \in SUBSET (1..Len(PhrasePool)) : Cardinality(T) <= MaxPhrases}}

KnownUrlLists ==
    {<<>>, <<"https://a.example/docs">>, <<"https://a.example/docs", "https://b.example/x">>}

\* ResearchContext(known_urls=...), then `ctx.search_attempts = n`.
Contexts ==
    {ResearchContext(known, <<>>, <<>>, <<>>, n) :
        known \in KnownUrlLists, n \in 0..MaxAttempts}

SuggestInit ==
    /\ oquery \in Queries
    /\ ctx \in Contexts
    /\ ocall = NoOrchCall
    /\ intent_scores = <<>>
    /\ suggestion = <<>>
    /\ list_searches = 0
    /\ n_calls = 0
    /\ direct_writes = 0
    /\ call = Call("suggest_tools", "", 0, FALSE, FALSE, None, 0)
    /\ gcall = NoGatherCall
    /\ targets = <<>>
    /\ tasks = <<>>
    /\ first_done = 0
    /\ lcall = NoLinkCall
    /\ html = <<>>
    /\ links = <<>>
    /\ pc = "called"
    /\ result = NoResult
    /\ max_pages = 0
    /\ visited = {}
    /\ to_visit = <<>>
    /\ pages = <<>>
    /\ root_domain = ""
    /\ url = ""
    /\ fpc = "idle"
    /\ f_url = ""
    /\ retry = 0
    /\ attempt = 0
    /\ last_error = None
    /\ version = 1
    /\ clock = 0
    /\ attempts_made = 0
    /\ strategy_calls = <<>>
    /\ sleeps = <<>>
    /\ won = "none"
    /\ fetch_calls = <<>>
    /\ fetch_ok = <<>>
    /\ dequeued = <<>>
    /\ link_ok = <<>>
    /\ history = <<>>
    /\ other = NoFrame
    /\ interleaved = FALSE

\* What the orchestrator leaves alone.
orchFrame == <<call, toolVars, fetchVars, envVars, gatherVars, linkVars, pairVars>>

\* classify_intent(oquery, ctx)
CallClassifyIntent ==
    /\ intent_scores = <<>>
    /\ intent_scores' = ClassifyIntent(oquery, ctx)
    /\ ocall' = OrchCall("classify_intent", "", PyStr(""), FALSE, "")
    /\ UNCHANGED <<ctx, oquery, suggestion, list_searches, n_calls, direct_writes>>
    /\ UNCHANGED orchFrame

\* suggest_tools(oquery, ctx)
CallSuggestTools ==
    /\ suggestion = <<>>
    /\ suggestion' = SuggestTools(oquery, ctx)
    /\ ocall' = OrchCall("suggest_tools", "", PyStr(""), FALSE, "")
    /\ UNCHANGED <<ctx, oquery, intent_scores, list_searches, n_calls, direct_writes>>
    /\ UNCHANGED orchFrame

SuggestNext ==
    \/ CallClassifyIntent
    \/ CallSuggestTools

SuggestSpec == SuggestInit /\ [][SuggestNext]_vars

(***************************************************************************)
(* A context from ResearchContext() on, under update_context_from_result,  *)
(* mark_failed, add_result and assignments to search_attempts              *)
(***************************************************************************)
MaxOps == 3

ContextTools == {"search_web", "scrape_url"}

\* What a tool hands back: two search results; a result list with a repeated
\* URL, an entry without "url" and an entry that is no dict; an empty list;
\* the Markdown of a page.
ToolResults ==
    {PyList(<<PyDict(<<<<"title", "A">>, <<"url", "https://a.example/docs">>>>),
              PyDict(<<<<"url", "https://b.example/x">>>>)>>),
     PyList(<<PyDict(<<<<"url", "https://a.example/docs">>>>),
              PyDict(<<<<"url", "https://a.example/docs">>>>),
              PyDict(<<<<"title", "T">>>>),
              PyStr("https://b.example/x")>>),
     PyList(<<>>),
     PyStr("# Page")}

ErrorMessages == {"", "HTTP 500"}

FailureReasons == {"Unknown error", "timed out"}

ContextInit ==
    /\ ctx = EmptyContext
    /\ oquery = ""
    /\ ocall = NoOrchCall
    /\ intent_scores = <<>>
    /\ suggestion = <<>>
    /\ list_searches = 0
    /\ n_calls = 0
    /\ direct_writes = 0
    /\ call = Call("update_context_from_result", "", 0, FALSE, FALSE, None, 0)
    /\ gcall = NoGatherCall
    /\ targets = <<>>
    /\ tasks = <<>>
    /\ first_done = 0
    /\ lcall = NoLinkCall
    /\ html = <<>>
    /\ links = <<>>
    /\ pc = "called"
    /\ result = NoResult
    /\ max_pages = 0
    /\ visited = {}
    /\ to_visit = <<>>
    /\ pages = <<>>
    /\ root_domain = ""
    /\ url = ""
    /\ fpc = "idle"
    /\ f_url = ""
    /\ retry = 0
    /\ attempt = 0
    /\ last_error = None
    /\ version = 1
    /\ clock = 0
    /\ attempts_made = 0
    /\ strategy_calls = <<>>
    /\ sleeps = <<>>
    /\ won = "none"
    /\ fetch_calls = <<>>
    /\ fetch_ok = <<>>
    /\ dequeued = <<>>
    /\ link_ok = <<>>
    /\ history = <<>>
    /\ other = NoFrame
    /\ interleaved = FALSE

\* update_context_from_result(ctx, tool, result, True)
UpdateSucceeded ==
    /\ n_calls < MaxOps
    /\ \E tool \in ContextTools, r \in ToolResults :
          /\ ctx' = UpdateContext(ctx, tool, r, TRUE, "")
          /\ ocall' = OrchCall("update_context_from_result", tool, r, TRUE, "")
          /\ list_searches' =
                IF tool = "search_web" /\ r.type = "list"
                THEN list_searches + 1 ELSE list_searches
    /\ n_calls' = n_calls + 1
    /\ UNCHANGED <<oquery, intent_scores, suggestion, direct_writes>>
    /\ UNCHANGED orchFrame

\* update_context_from_result(ctx, tool, None, False, error_message)
UpdateFailed ==
    /\ n_calls < MaxOps
    /\ \E tool \in ContextTools, m \in ErrorMessages :
          /\ ctx' = UpdateContext(ctx, tool, PyStr(""), FALSE, m)
          /\ ocall' = OrchCall("update_context_from_result", tool, PyStr(""), FALSE, m)
    /\ n_calls' = n_calls + 1
    /\ UNCHANGED <<oquery, intent_scores, suggestion, list_searches, direct_writes>>
    /\ UNCHANGED orchFrame

\* ctx.mark_failed(tool, reason)
MarkFailed ==
    /\ n_calls < MaxOps
    /\ \E tool \in ContextTools, reason \in FailureReasons :
          /\ ctx' = MarkFailedOp(ctx, tool, reason)
          /\ ocall' = OrchCall("mark_failed", tool, PyStr(""), FALSE, reason)
    /\ n_calls' = n_calls + 1
    /\ UNCHANGED <<oquery, intent_scores, suggestion, list_searches, direct_writes>>
    /\ UNCHANGED orchFrame

\* ctx.add_result(tool, result), called by the holder of the context.
AddResultCall ==
    /\ n_calls < MaxOps
    /\ \E tool \in ContextTools, r \in ToolResults :
          /\ ctx' = AddResult(ctx, tool, r)
          /\ ocall' = OrchCall("add_result", tool, r, TRUE, "")
    /\ n_calls' = n_calls + 1
    /\ direct_writes' = direct_writes + 1
    /\ UNCHANGED <<oquery, intent_scores, suggestion, list_searches>>
    /\ UNCHANGED orchFrame

\* `ctx.search_attempts = n`: the holder of the context assigns the field.
SetSearchAttempts ==
    /\ n_calls < MaxOps
    /\ \E n \in 0..MaxAttempts :
          /\ ctx' = [ctx EXCEPT !.search_attempts = n]
          /\ ocall' = OrchCall("search_attempts", "", PyStr(NumStr(n)), TRUE, "")
    /\ n_calls' = n_calls + 1
    /\ direct_writes' = direct_writes + 1
    /\ UNCHANGED <<oquery, intent_scores, suggestion, list_searches>>
    /\ UNCHANGED orchFrame

ContextNext ==
    \/ UpdateSucceeded
    \/ UpdateFailed
    \/ MarkFailed
    \/ AddResultCall
    \/ SetSearchAttempts

ContextSpec == ContextInit /\ [][ContextNext]_vars

(***************************************************************************)
(* crawl_docs on the two small sites a.example and docs.d.example and on   *)
(* the page of b.example they link to                                      *)
(***************************************************************************)
SiteRoots == {"https://a.example/docs", "https://b.example/other", "https://docs.d.example/home"}

SiteCrawlCalls ==
    {Call("crawl_docs", u, m, fe, FALSE, None, 0) :
        u \in SiteRoots, m \in {2, 5}, fe \in BOOLEAN}

SiteInit == Init /\ call \in SiteCrawlCalls

SiteNext ==
    \/ StartCrawl
    \/ CrawlNext
    \/ LinksArrive
    \/ LinksFail
    \/ CrawlFinish
    \/ Crawl4aiSucceeds
    \/ Crawl4aiFails
    \/ HttpxSucceeds
    \/ HttpxFails
    \/ BackoffElapsed

SiteSpec == SiteInit /\ [][SiteNext]_vars

(***************************************************************************)
(* Two crawl_docs coroutines on one event loop.  The running coroutine's   *)
(* locals are the variables of the crawl; `other` holds those of the       *)
(* suspended one.  The module-level _adapter holds no state that fetch     *)
(* writes, so the coroutines share the environment only.                   *)
(***************************************************************************)

\* The locals of crawl_docs and of its fetch, with the records kept of them.
Frame(c, p, res, budget, seen, queue, pageList, domain, u, deq, answered, fp, fu, r, a,
      err, made, strategies, slept, winner, calls, ok) ==
    [call |-> c, pc |-> p, result |-> res, max_pages |-> budget, visited |-> seen,
     to_visit |-> queue, pages |-> pageList, root_domain |-> domain, url |-> u,
     dequeued |-> deq, link_ok |-> answered, fpc |-> fp, f_url |-> fu, retry |-> r,
     attempt |-> a, last_error |-> err, attempts_made |-> made,
     strategy_calls |-> strategies, sleeps |-> slept, won |-> winner,
     fetch_calls |-> calls, fetch_ok |-> ok]

\* The coroutine of a call that has not run yet.
NewFrame(c) ==
    Frame(c, "called", NoResult, 0, {}, <<>>, <<>>, "", "", <<>>, <<>>, "idle", "", 0, 0,
          None, 0, <<>>, <<>>, "none", <<>>, <<>>)

RunningFrame ==
    Frame(call, pc, result, max_pages, visited, to_visit, pages, root_domain, url, dequeued,
          link_ok, fpc, f_url, retry, attempt, last_error, attempts_made, strategy_calls,
          sleeps, won, fetch_calls, fetch_ok)

\* Where a coroutine can be suspended: before its first step, at an await
\* (in fetch, at the link request, at the exit of the AsyncClient), after its
\* return.
AtAwait(p) == p \in {"called", "fetching", "links", "closing", "done"}

UnderWay(p) == p \in {"fetching", "links", "closing"}

PairFirstCalls == {Call("crawl_docs", "https://a.example/docs", 2, FALSE, FALSE, None, 0)}

PairSecondCalls ==
    {Call("crawl_docs", "https://a.example/docs", 2, TRUE, FALSE, None, 0),
     Call("crawl_docs", "https://b.example/other", 2, FALSE, FALSE, None, 0)}

PairInit ==
    /\ call \in PairFirstCalls
    /\ other \in {NewFrame(c) : c \in PairSecondCalls}
    /\ interleaved = FALSE
    /\ pc = "called"
    /\ result = NoResult
    /\ max_pages = 0
    /\ visited = {}
    /\ to_visit = <<>>
    /\ pages = <<>>
    /\ root_domain = ""
    /\ url = ""
    /\ fpc = "idle"
    /\ f_url = ""
    /\ retry = 0
    /\ attempt = 0
    /\ last_error = None
    /\ version = 1
    /\ clock = 0
    /\ attempts_made = 0
    /\ strategy_calls = <<>>
    /\ sleeps = <<>>
    /\ won = "none"
    /\ fetch_calls = <<>>
    /\ fetch_ok = <<>>
    /\ dequeued = <<>>
    /\ link_ok = <<>>
    /\ history = <<>>
    /\ gcall = NoGatherCall
    /\ targets = <<>>
    /\ tasks = <<>>
    /\ first_done = 0
    /\ lcall = NoLinkCall
    /\ html = <<>>
    /\ links = <<>>
    /\ ctx = EmptyContext
    /\ oquery = ""
    /\ ocall = NoOrchCall
    /\ intent_scores = <<>>
    /\ suggestion = <<>>
    /\ list_searches = 0
    /\ n_calls = 0
    /\ direct_writes = 0

\* Switch with one `visited` set for both coroutines.
SwitchSharingVisited ==
    /\ AtAwait(pc)
    /\ other.pc # "done"
    /\ call' = other.call
    /\ pc' = other.pc
    /\ result' = other.result
    /\ max_pages' = other.max_pages
    /\ visited' = visited
    /\ to_visit' = other.to_visit
    /\ pages' = other.pages
    /\ root_domain' = other.root_domain
    /\ url' = other.url
    /\ dequeued' = other.dequeued
    /\ link_ok' = other.link_ok
    /\ fpc' = other.fpc
    /\ f_url' = other.f_url
    /\ retry' = other.retry
    /\ attempt' = other.attempt
    /\ last_error' = other.last_error
    /\ attempts_made' = other.attempts_made
    /\ strategy_calls' = other.strategy_calls
    /\ sleeps' = other.sleeps
    /\ won' = other.won
    /\ fetch_calls' = other.fetch_calls
    /\ fetch_ok' = other.fetch_ok
    /\ other' = RunningFrame
    /\ interleaved' = (interleaved \/ (UnderWay(pc) /\ UnderWay(other.pc)))
    /\ UNCHANGED <<history, envVars, gatherVars, linkVars, orchVars>>

\* The event loop suspends the running coroutine where it awaits, or has
\* returned, and resumes the other one.
Switch ==
    /\ AtAwait(pc)
    /\ other.pc # "done"
    /\ call' = other.call
    /\ pc' = other.pc
    /\ result' = other.result
    /\ max_pages' = other.max_pages
    /\ visited' = other.visited
    /\ to_visit' = other.to_visit
    /\ pages' = other.pages
    /\ root_domain' = other.root_domain
    /\ url' = other.url
    /\ dequeued' = other.dequeued
    /\ link_ok' = other.link_ok
    /\ fpc' = other.fpc
    /\ f_url' = other.f_url
    /\ retry' = other.retry
    /\ attempt' = other.attempt
    /\ last_error' = other.last_error
    /\ attempts_made' = other.attempts_made
    /\ strategy_calls' = other.strategy_calls
    /\ sleeps' = other.sleeps
    /\ won' = other.won
    /\ fetch_calls' = other.fetch_calls
    /\ fetch_ok' = other.fetch_ok
    /\ other' = RunningFrame
    /\ interleaved' = (interleaved \/ (UnderWay(pc) /\ UnderWay(other.pc)))
    /\ UNCHANGED <<history, envVars, gatherVars, linkVars, orchVars>>

PairNext ==
    \/ Switch
    \/ StartCrawl
    \/ CrawlNext
    \/ LinksArrive
    \/ LinksFail
    \/ CrawlFinish
    \/ Crawl4aiSucceeds
    \/ Crawl4aiFails
    \/ HttpxSucceeds
    \/ HttpxFails
    \/ BackoffElapsed

PairSpec == PairInit /\ [][PairNext]_vars

(***************************************************************************)
(* Claims                                                                  *)
(***************************************************************************)
IsCrawl == call.tool = "crawl_docs"

PageUrls == [i \in 1..Len(pages) |-> pages[i][1]]

NoDuplicates(list) ==
    \A i \in 1..Len(list) : \A j \in 1..Len(list) : i # j => list[i] # list[j]

\* C1: in every state of a crawl_docs run the number of fetched pages is at
\* most the page budget, the max_pages argument clamped into [1, 20].
C1_BudgetRespected ==
    IsCrawl =>
        LET m == call.max_pages
            budget == IF m < 1 THEN 1 ELSE IF m > 20 THEN 20 ELSE m
        IN  Len(pages) <= budget

\* A crawl asked for 25 pages ends with 20, on a site that has more.
C1_Witness ==
    /\ IsCrawl
    /\ call.max_pages = 25
    /\ pc = "done"
    /\ Len(pages) = 20
    /\ to_visit # <<>>

\* scheme + host + path of a URL, its query and fragment stripped.
CanonicalPageUrls ==
    [i \in 1..Len(pages) |->
        urlparse(pages[i][1]).scheme \o "://" \o urlparse(pages[i][1]).netloc
          \o urlparse(pages[i][1]).path]

\* C2: each canonical URL (scheme + host + path) appears in the list of
\* fetched pages at most once, for every root URL and link graph.
C2_NoCanonicalRevisit == IsCrawl => NoDuplicates(CanonicalPageUrls)

\* C3: a URL whose fetch was attempted is never dequeued and never passed to
\* fetch a second time: every URL is consumed from the frontier at most once.
C3_ConsumedOnce == IsCrawl => NoDuplicates(dequeued) /\ NoDuplicates(fetch_calls)

\* The run of the example: root https://a.example/docs, max_pages = 5,
\* follow_external = False, every fetch and every link request answered.
ExampleRun ==
    /\ IsCrawl
    /\ call.url = "https://a.example/docs"
    /\ call.max_pages = 5
    /\ ~call.follow_external
    /\ pc = "done"
    /\ fetch_ok = fetch_calls
    /\ link_ok = fetch_ok

\* C4: with follow_external = False every fetched page is on the host of the
\* root URL; the run of the example fetches exactly /docs and /docs/intro and
\* raises no CrawlError.
C4_DomainPolicy ==
    /\ (IsCrawl /\ ~call.follow_external) =>
          \A i \in 1..Len(pages) :
             urlparse(pages[i][1]).netloc = urlparse(call.url).netloc
    /\ ExampleRun =>
          /\ {pages[i][1] : i \in 1..Len(pages)}
                = {"https://a.example/docs", "https://a.example/docs/intro"}
          /\ result.kind = "ok"

C4_Witness == ExampleRun /\ Len(pages) = 2 /\ "https://b.example/other" \notin visited

\* C5: a failed fetch never ends a crawl.  A crawl_docs that called fetch
\* ends only by leaving its loop, because the frontier is empty or the budget
\* is reached; it raises CrawlError only when no fetch succeeded, and when a
\* fetch succeeded it returns a document that holds exactly the pages whose
\* fetch succeeded, in that order.  (The one other end of a call is the
\* ValueError of urlparse(root_url), raised before the loop and any fetch.)
C5_PartialFailureTolerance ==
    (IsCrawl /\ pc = "done") =>
        /\ result.kind \in {"ok", "CrawlError", "ValueError"}
        /\ result.kind = "ValueError" => fetch_calls = <<>> /\ dequeued = <<>>
        /\ result.kind # "ValueError" => ~LoopCondition
        /\ result.kind = "CrawlError" => fetch_ok = <<>>
        /\ fetch_ok # <<>> => result.kind = "ok"
        /\ result.kind = "ok" =>
              /\ PageUrls = fetch_ok
              /\ Contains(result.value, "> Pages: " \o NumStr(Len(fetch_ok)) \o "/")
              /\ \A i \in 1..Len(fetch_ok) :
                    Contains(result.value,
                             "\n## " \o NumStr(i) \o ". " \o TitleOr(pages[i][2], pages[i][1])
                               \o "\n\n> Source: " \o fetch_ok[i] \o "\n")

\* A crawl in which two fetches failed after all their attempts returns the
\* two pages that could be fetched.
C5_Witness ==
    /\ IsCrawl
    /\ pc = "done"
    /\ result.kind = "ok"
    /\ Len(fetch_ok) = 2
    /\ Len(fetch_calls) = 4

\* The fetch last called is over and has raised.
LastFetchFailed == fetch_calls # <<>> /\ fpc = "idle" /\ won = "none"

\* The scheme and the host written in a URL, as urlsplit reads them off
\* before it checks the host.
SchemeText(u) == SplitScheme(CleanUrl(u), "")[1]

NetlocText(u) == SplitNetloc(SplitScheme(CleanUrl(u), "")[2]).netloc

\* The URL fetch was last called with is empty or blank, or has no scheme or
\* no host.
LastUrlInvalid ==
    \/ Strip(f_url) = ""
    \/ SchemeText(f_url) = ""
    \/ NetlocText(f_url) = ""

\* urlparse raises on the URL fetch was last called with.
LastUrlMalformed == FetchValueError(f_url) # ""

\* C6: a fetch of a valid URL (one urlparse accepts, with a scheme and a
\* host) on which every strategy fails in every attempt makes exactly
\* retry + 1 attempts, each calling both strategies, and then raises
\* ScrapingError; the delays it slept between attempts never decrease.
C6_RetryBound ==
    (LastFetchFailed /\ ~LastUrlInvalid /\ ~LastUrlMalformed) =>
        /\ attempts_made = retry + 1
        /\ Len(strategy_calls) = 2 * (retry + 1)
        /\ \A a \in 0..retry :
              /\ strategy_calls[2 * a + 1] = <<a, "crawl4ai">>
              /\ strategy_calls[2 * a + 2] = <<a, "httpx">>
        /\ Len(sleeps) = retry
        /\ \A i \in 1..(Len(sleeps) - 1) : sleeps[i] <= sleeps[i + 1]
        /\ (call.tool = "fetch" => pc = "done" /\ result.kind = "ScrapingError")

C6_Witness ==
    /\ call.tool = "fetch"
    /\ call.retry = 2
    /\ pc = "done"
    /\ result.kind = "ScrapingError"
    /\ attempts_made = 3
    /\ sleeps = <<1, 2>>

\* C7: fetch on an empty or blank URL, or one without a scheme or a host,
\* raises ScrapingError at once: no strategy is called, nothing is slept and no
\* attempt is made, whatever retry is.  (Not so for "//[x.example/same": it
\* has no scheme, and what leaves fetch is the ValueError of urlparse.)
C7_InvalidUrlFailsAtOnce ==
    (fetch_calls # <<>> /\ LastUrlInvalid) =>
        /\ fpc = "idle"
        /\ won = "none"
        /\ attempts_made = 0
        /\ strategy_calls = <<>>
        /\ sleeps = <<>>
        /\ (call.tool \in {"fetch", "scrape_url", "monitor_changes"} /\ pc = "done")
              => result.kind = "ScrapingError"

\* C8: when its fetch fails, scrape_url raises and returns no content, and
\* monitor_changes raises ScrapingError and returns neither a report nor a
\* digest; when the fetch failed after attempts were made, what scrape_url
\* raises is ScrapingError.
C8_NoSilentDegradation ==
    (call.tool \in {"scrape_url", "monitor_changes"} /\ pc = "done" /\ LastFetchFailed) =>
        /\ result.kind \in {"ScrapingError", "ValueError"}
        /\ attempts_made > 0 => result.kind = "ScrapingError"
        /\ call.tool = "monitor_changes" =>
              /\ result.kind = "ScrapingError"
              /\ history[Len(history)].status = "none"
              /\ history[Len(history)].digest = None

\* monitor_changes on a valid URL whose fetch failed in both attempts.
C8_Witness ==
    /\ call.tool = "monitor_changes"
    /\ call.previous_content # None
    /\ pc = "done"
    /\ LastFetchFailed
    /\ attempts_made = MonitorRetry + 1
    /\ result.kind = "ScrapingError"

\* C9: two consecutive monitor_changes calls on a page that did not change in
\* between, the second given the digest of the first, have the same digest and
\* the second reports Unchanged, whichever strategy succeeded in each.
C9_DigestDeterminism ==
    \A k \in 1..(Len(history) - 1) :
        (/\ history[k].digest # None
         /\ history[k + 1].digest # None
         /\ history[k + 1].previous_content = history[k].digest
         /\ history[k + 1].version = history[k].version)
        => /\ history[k + 1].digest = history[k].digest
           /\ history[k + 1].status = "Unchanged"

\* C10 as stated: the status is Baseline exactly when no previous digest was
\* passed, and with a previous digest string it is Unchanged when that equals
\* the current digest and Changed otherwise.
C10_StatusBySuppliedDigest ==
    \A k \in 1..Len(history) :
        history[k].digest # None =>
            /\ (history[k].status = "Baseline") = (history[k].previous_content = None)
            /\ history[k].previous_content # None =>
                  history[k].status =
                      IF history[k].previous_content = history[k].digest
                      THEN "Unchanged" ELSE "Changed"

\* C10, amended: the status is Baseline exactly when previous_content is None
\* or the empty string; with a non-empty previous_content it is Unchanged when
\* that equals the current digest and Changed otherwise.
C10_StatusByTruthyDigest ==
    \A k \in 1..Len(history) :
        history[k].digest # None =>
            LET absent == history[k].previous_content \in {None, Some("")} IN
            /\ (history[k].status = "Baseline") = absent
            /\ ~absent =>
                  history[k].status =
                      IF history[k].previous_content = history[k].digest
                      THEN "Unchanged" ELSE "Changed"

\* A first check with the empty string as previous digest reports Baseline, and
\* a second one with the digest of the first reports Unchanged.
C10_Witness ==
    /\ Len(history) = 2
    /\ history[1].previous_content = Some("")
    /\ history[1].status = "Baseline"
    /\ history[2].previous_content = history[1].digest
    /\ history[2].status = "Unchanged"

\* C11: every report monitor_changes returns holds the status and the current
\* content digest, whether the status is Baseline, Unchanged or Changed.
C11_ReportHoldsStatusAndDigest ==
    (call.tool = "monitor_changes" /\ pc = "done" /\ result.kind = "ok") =>
        LET rec == history[Len(history)] IN
        /\ rec.status \in {"Baseline", "Unchanged", "Changed"}
        /\ Contains(result.value,
                    CASE rec.status = "Baseline" -> BaselineLine
                      [] rec.status = "Unchanged" -> UnchangedLine
                      [] OTHER -> ChangedLine)
        /\ Contains(result.value, rec.digest[1])

\* C12: crawl_docs terminates, on cyclic link graphs and whichever fetches
\* fail: every crawl_docs call eventually ends, its loop left because the
\* budget is reached or nothing is pending (or never entered, when
\* urlparse(root_url) raises).
C12_CrawlTerminates ==
    IsCrawl ~> (pc = "done" /\ (~LoopCondition \/ result.kind = "ValueError"))

\* A crawl of the cyclic site has ended although fetches failed and a URL came
\* back into the pending list after it had been taken out.
C12_Witness ==
    /\ IsCrawl
    /\ call.url = "https://s.example/docs"
    /\ pc = "done"
    /\ Len(fetch_ok) < Len(fetch_calls)
    /\ ~NoDuplicates(dequeued)

\* C13: in every state of a crawl_docs run no URL of the pending list to_visit
\* is in visited, and no URL occurs in to_visit twice.
C13_FrontierDisjoint ==
    IsCrawl =>
        /\ NoDuplicates(to_visit)
        /\ \A i \in 1..Len(to_visit) : to_visit[i] \notin visited

\* The links of a second page have been filtered: it links back to the root,
\* which is visited, and other URLs are pending.
C13_Witness ==
    /\ IsCrawl
    /\ pc = "closing"
    /\ link_ok = <<"https://s.example/docs", "https://s.example/docs/intro">>
    /\ "https://s.example/docs" \in visited
    /\ Len(to_visit) >= 2

\* The pages whose link request failed: fetched, not being asked for their
\* links, and with no answer recorded.
LinklessPages ==
    {fetch_ok[i] : i \in 1..Len(fetch_ok)}
        \ ({link_ok[i] : i \in 1..Len(link_ok)} \cup (IF pc = "links" THEN {url} ELSE {}))

\* C14: when the link request for a fetched page fails, the page stays in the
\* crawl's pages and in its result, the pending list is left as it was, and the
\* crawl goes on with the next pending URL.
C14_LinkFailureKeepsPage ==
    /\ [][(IsCrawl /\ pc = "links" /\ pc' # "links" /\ link_ok' = link_ok)
            => /\ pages' = pages
               /\ to_visit' = to_visit
               /\ visited' = visited
               /\ pc' = "closing"]_vars
    /\ [](IsCrawl =>
            \A u \in LinklessPages :
               /\ \E i \in 1..Len(pages) : pages[i][1] = u
               /\ pc = "done" =>
                     /\ result.kind = "ok"
                     /\ Contains(result.value, "> Source: " \o u \o "\n"))

\* The link request of the second page failed, and the crawl went on to fetch
\* a third page and returned all three.
C14_Witness ==
    /\ IsCrawl
    /\ pc = "done"
    /\ result.kind = "ok"
    /\ Len(pages) >= 3
    /\ pages[2][1] \in LinklessPages
    /\ pages[1][1] \notin LinklessPages

\* The network requests of the run that are outstanding: a strategy of fetch,
\* the link request of crawl_docs.
OutstandingRequests ==
    (IF fpc \in {"crawl4ai", "httpx"} THEN 1 ELSE 0) + (IF pc = "links" THEN 1 ELSE 0)

\* C15: a crawl_docs run is sequential.  At most one of its network requests
\* is outstanding at any moment; a successful fetch is followed by the page's
\* link request; while that request is outstanding nothing is dequeued and
\* nothing is fetched; and a URL is dequeued only when the fetch, the link
\* discovery and the enqueueing for the URL before it are over.
C15_StrictlySequential ==
    /\ [](IsCrawl => OutstandingRequests <= 1)
    /\ [][IsCrawl =>
            /\ (fetch_ok' # fetch_ok => pc' = "links" /\ fpc' = "idle")
            /\ (pc = "links" =>
                  /\ dequeued' = dequeued
                  /\ fetch_calls' = fetch_calls
                  /\ fpc' = "idle"
                  /\ pc' = "closing")
            /\ (to_visit' # to_visit /\ dequeued' = dequeued => pc \in {"called", "links"})
            /\ (dequeued' # dequeued =>
                  /\ AtLoopHead
                  /\ fpc = "idle"
                  /\ dequeued' = Append(dequeued, Head(to_visit)))]_vars

\* A third URL is being fetched after two pages went through fetch, link
\* discovery and enqueueing.
C15_Witness ==
    /\ IsCrawl
    /\ pc = "fetching"
    /\ OutstandingRequests = 1
    /\ Len(dequeued) = 3
    /\ Len(link_ok) = 2

\* The position of the first occurrence of sub in s, 0 when there is none.
PositionIn(s, sub) ==
    LET hits == {i \in 1..(Len(s) - Len(sub) + 1) : SubSeq(s, i, i + Len(sub) - 1) = sub}
    IN  IF hits = {} THEN 0 ELSE CHOOSE i \in hits : \A j \in hits : i <= j

\* The heading of source i in the report of a gather tool, as the outcome of
\* its own fetch makes it.
SourceHeading(i) ==
    IF gcall.tool = "compare_sources"
    THEN "\n#### Source " \o NumStr(i) \o ": "
           \o (IF tasks[i].doc = None THEN "Failed" ELSE tasks[i].doc[1].title) \o "\n\n"
           \o (IF tasks[i].doc = None THEN "*Failed to fetch*\n" ELSE "# ")
    ELSE "### Source " \o NumStr(i) \o ": " \o targets[i].title \o "\n\n> "
           \o targets[i].url \o "\n\n"
           \o (IF tasks[i].doc = None THEN "*Failed to fetch content*" ELSE "")

\* C16: in compare_sources and deep_dive the fetches of the sources are
\* independent.  However their steps interleave and in whatever order they
\* end, the tool returns a report: a failed fetch does not make it fail.  The
\* sources are reported in input order, and what is recorded for a source is
\* the outcome of its own fetch: the Document one of the strategies returns
\* for its URL, or a failure.
C16_GatherIndependent ==
    (pc = "done" /\ tasks # <<>>) =>
        /\ result.kind = "ok"
        /\ Len(tasks) = Len(targets)
        /\ gcall.tool = "compare_sources" =>
              \A i \in 1..Len(tasks) : targets[i].url = gcall.sources[i]
        /\ \A i \in 1..Len(tasks) :
              /\ tasks[i].url = targets[i].url
              /\ tasks[i].doc \in
                    {None} \cup
                    (IF Exists(tasks[i].url) /\ ~FetchRejects(tasks[i].url)
                     THEN {<<Crawl4aiDocument(tasks[i].url, version, clock)>>,
                           <<HttpxDocument(tasks[i].url, version, clock)>>}
                     ELSE {})
              /\ PositionIn(result.value, SourceHeading(i)) > 0
              /\ i > 1 => PositionIn(result.value, SourceHeading(i - 1))
                            < PositionIn(result.value, SourceHeading(i))

\* Three sources compared: the third fetch ended first, the second failed, and
\* the report was returned.
C16_Witness ==
    /\ gcall.tool = "compare_sources"
    /\ pc = "done"
    /\ result.kind = "ok"
    /\ Len(tasks) = 3
    /\ first_done = 3
    /\ tasks[1].doc # None
    /\ tasks[2].doc = None
    /\ tasks[3].doc # None

\* C17: a URL containing a blocklisted substring (login, signup, download,
\* print, .pdf, .zip) is rejected before it is enqueued: in no state of a
\* crawl_docs run is such a URL an element of the pending queue.
C17_SkippedNeverQueued ==
    IsCrawl => \A i \in 1..Len(to_visit) : ~IsSkipped(to_visit[i])

\* Whether the path of the link holds a documentation hint token.
PathHinted(link) == IsDocHint(urlparse(link).path)

\* The position of e in the list.
IndexIn(list, e) == CHOOSE k \in 1..Len(list) : list[k] = e

\* C18: when crawl_docs enqueues the links discovered on a page, a link whose
\* path contains a hint token (doc, guide, tutorial, reference) goes to the
\* head of the pending queue, before every URL already queued, and any other
\* link goes to the tail, after every URL already queued and after the other
\* such links discovered before it.
C18_HintedPathFirst ==
    [][ (IsCrawl /\ link_ok' # link_ok) =>
          LET discovered == get_same_domain_links(Page(url, version).hrefs, url).links
              old == {to_visit[k] : k \in 1..Len(to_visit)}
              IsNew(i) == to_visit'[i] \notin old
          IN  \A i \in 1..Len(to_visit') : IsNew(i) =>
                 IF PathHinted(to_visit'[i])
                 THEN \A j \in 1..Len(to_visit') : ~IsNew(j) => i < j
                 ELSE /\ \A j \in 1..Len(to_visit') : ~IsNew(j) => j < i
                      /\ \A j \in 1..(i - 1) :
                            (IsNew(j) /\ ~PathHinted(to_visit'[j])) =>
                               IndexIn(discovered, to_visit'[j])
                                 < IndexIn(discovered, to_visit'[i]) ]_vars

\* The table-of-contents entries, the section headings and the attribution
\* lines among the lines of an assembled document.
TocEntriesOf(lines) ==
    SelectSeq(lines, LAMBDA l : Contains(l, ". [") /\ Contains(l, "](#"))

SectionHeadingsOf(lines) ==
    SelectSeq(lines, LAMBDA l : StartsWith(l, "## ") /\ l # "## Table of Contents")

AttributionsOf(lines) == SelectSeq(lines, LAMBDA l : StartsWith(l, "> Source: "))

\* What C19 asks of the lines of the document, for the pages fetched (their
\* URLs in fetch order, fetched), their titles and the page budget.
AssembledFrom(lines, toc, heads, attrs, fetched, titles, budget) ==
    /\ Len(lines) > 5
    /\ lines[5] = "> Pages: " \o NumStr(Len(fetched)) \o "/" \o NumStr(budget)
    /\ Len(toc) = Len(fetched)
    /\ Len(heads) = Len(fetched)
    /\ Len(attrs) = Len(fetched)
    /\ \A i \in 1..Len(fetched) :
          LET name == IF titles[i] = "" THEN fetched[i] ELSE titles[i] IN
          /\ StartsWith(toc[i], NumStr(i) \o ". [" \o name \o "](#")
          /\ heads[i] = "## " \o NumStr(i) \o ". " \o name
          /\ attrs[i] = "> Source: " \o fetched[i]
          /\ IndexIn(lines, toc[i]) < IndexIn(lines, heads[1])
          /\ IndexIn(lines, heads[i]) < IndexIn(lines, attrs[i])
          /\ i > 1 => IndexIn(lines, attrs[i - 1]) < IndexIn(lines, heads[i])

AssembledLines(lines, fetched, titles, budget) ==
    AssembledFrom(lines, TocEntriesOf(lines), SectionHeadingsOf(lines), AttributionsOf(lines),
                  fetched, titles, budget)

\* C19: the document crawl_docs returns has exactly one table-of-contents
\* entry and one body section per fetched page, both in fetch order and
\* numbered 1..n, and its header reports n, the number of pages retrieved,
\* against the page budget.
C19_AssemblyMatchesPages ==
    (IsCrawl /\ pc = "done" /\ result.kind = "ok") =>
        /\ Len(pages) = Len(fetch_ok)
        /\ AssembledLines(SplitLines(result.value), fetch_ok,
                          [i \in 1..Len(pages) |-> pages[i][2]],
                          IF call.max_pages < 1 THEN 1
                          ELSE IF call.max_pages > 20 THEN 20 ELSE call.max_pages)

\* A crawl that retrieved fewer pages than its budget, one fetch having
\* failed, returned its document.
C19_Witness ==
    /\ IsCrawl
    /\ pc = "done"
    /\ result.kind = "ok"
    /\ Len(pages) >= 2
    /\ Len(pages) < max_pages
    /\ Len(fetch_calls) > Len(fetch_ok)

\* The index of the first anchor of the page whose target, made absolute
\* against the base and cleaned of query and fragment, is the link.
FirstAppearance(link) ==
    CHOOSE k \in 1..Len(html) :
        LET Target_(j) == urlparse(urljoin(lcall.url, html[j].href).url)
            Clean(j) == Target_(j).scheme \o "://" \o Target_(j).netloc \o Target_(j).path
        IN  Clean(k) = link /\ \A j \in 1..(k - 1) : Clean(j) # link

\* The list get_same_domain_links returned holds each URL once, in order of
\* first appearance in the HTML.
LinkListDeduplicated ==
    /\ NoDuplicates(links)
    /\ \A i, j \in 1..Len(links) :
          i < j => FirstAppearance(links[i]) < FirstAppearance(links[j])

\* The URLs listed by the link lines among `lines`.
ListedUrls(lines) ==
    LET entries == SelectSeq(lines, LAMBDA l : StartsWith(l, "- ["))
    IN  [k \in 1..Len(entries) |->
            SubSeq(entries[k], PositionIn(entries[k], "](") + 2, Len(entries[k]) - 1)]

\* Both sections of the report list each URL once; `ext` is the index of the
\* heading of the external section, past the last line when there is none.
SectionsDeduplicated(lines, ext) ==
    /\ NoDuplicates(ListedUrls(SubSeq(lines, 1, ext - 1)))
    /\ NoDuplicates(ListedUrls(SubSeq(lines, ext, Len(lines))))

ReportDeduplicated(lines) ==
    SectionsDeduplicated(lines,
        IF \E k \in 1..Len(lines) : StartsWith(lines[k], "## External Links")
        THEN CHOOSE k \in 1..Len(lines) : StartsWith(lines[k], "## External Links")
        ELSE Len(lines) + 1)

\* C20: link extraction output is deduplicated by absolute URL: the list
\* get_same_domain_links returns holds each URL at most once, in order of
\* first appearance in the HTML, and each section of the report of
\* extract_links lists each absolute URL at most once.
C20_LinksDeduplicated ==
    pc = "done" =>
        /\ lcall.tool = "get_same_domain_links" => LinkListDeduplicated
        /\ (lcall.tool = "extract_links" /\ result.kind = "ok") =>
              ReportDeduplicated(SplitLines(result.value))

\* The tools of the steps of the workflow suggest_tools returned.
SuggestedTools == [i \in 1..Len(suggestion.workflow) |-> suggestion.workflow[i].tool]

\* C21: when the research context holds at least one known URL, the workflow
\* returned by suggest_tools contains no search_web step, whatever primary
\* intent the query is classified as.
C21_KnownUrlsSkipSearch ==
    (ocall.op # "none" /\ suggestion # <<>> /\ Len(ctx.known_urls) >= 1)
        => ~InList(SuggestedTools, "search_web")

\* Every element of the list `before` is in the list `after`.
NothingRemoved(before, after) == \A k \in 1..Len(before) : InList(after, before[k])

\* What holds of the context after every call; search_attempts counts the
\* searches as long as the calls were update_context_from_result and
\* mark_failed only.
ContextConsistent ==
    /\ NoDuplicates(ctx.known_urls)
    /\ NoDuplicates(ctx.failed_tools)
    /\ direct_writes = 0 => ctx.search_attempts = list_searches

\* What every call on the context respects.
ContextStep ==
    /\ NothingRemoved(ctx.known_urls, ctx'.known_urls)
    /\ NothingRemoved(ctx.failed_tools, ctx'.failed_tools)
    /\ (ocall'.op = "update_context_from_result" /\ ~ocall'.success)
          => /\ ctx'.known_urls = ctx.known_urls
             /\ ctx'.found_sources = ctx.found_sources
             /\ ctx'.previous_results = ctx.previous_results
             /\ ctx'.user_constraints = ctx.user_constraints
             /\ ctx'.search_attempts = ctx.search_attempts

\* C22: starting from an empty ResearchContext, after any sequence of
\* update_context_from_result and mark_failed calls, known_urls and
\* failed_tools contain no duplicates, nothing is ever removed from either,
\* search_attempts equals the number of successful search_web updates whose
\* result was a list, and a failed update changes only failed_tools and
\* failure_reasons.
C22_ContextInvariants == []ContextConsistent /\ [][ContextStep]_vars

\* Two URLs were learnt from a list of search results, a later search_web
\* success handed back text and was not counted, and the last call was a
\* failed update.
C22_Witness ==
    /\ n_calls = MaxOps
    /\ direct_writes = 0
    /\ Len(ctx.known_urls) = 2
    /\ ctx.search_attempts = 1
    /\ DictGet(ctx.previous_results, "search_web").type = "str"
    /\ ocall.op = "update_context_from_result"
    /\ ~ocall.success

\* The intents of the scores classify_intent returned, in order.
ReturnedIntents == [i \in 1..Len(intent_scores) |-> intent_scores[i].intent]

\* The query holds a keyword of the intent.
Matches(intent) == \E k \in 1..Len(IntentKeywords(intent)) :
                      Contains(Lower(oquery), IntentKeywords(intent)[k])

\* The confidence the query and the context give the intent.
ConfidenceOf(intent) ==
    Confidence(intent,
               Cardinality({k \in 1..Len(IntentKeywords(intent)) :
                               Contains(Lower(oquery), IntentKeywords(intent)[k])}),
               Len(ctx.known_urls) > 0, ctx.search_attempts)

\* Of the conflicting pair, `kept` is returned and `dropped` is not, and
\* `dropped` is not the more confident of the two.
KeptOver(kept, dropped) ==
    /\ InList(ReturnedIntents, kept)
    /\ ~InList(ReturnedIntents, dropped)
    /\ ~ConfLess(ConfidenceOf(kept), ConfidenceOf(dropped))

\* C23: for every query and context, classify_intent returns a non-empty list
\* ordered by non-increasing confidence whose first element is the primary
\* intent suggest_tools reports, and the list never holds both quick_answer
\* and deep_research: when the query matches both, the one returned is the
\* one of higher confidence.
C23_RankedWithoutConflicts ==
    intent_scores # <<>> =>
        /\ Len(intent_scores) >= 1
        /\ \A i \in 1..Len(intent_scores) : \A j \in 1..Len(intent_scores) :
              i < j => ~ConfLess(intent_scores[i].confidence, intent_scores[j].confidence)
        /\ suggestion # <<>> =>
              /\ suggestion.primary_intent.type = intent_scores[1].intent
              /\ suggestion.primary_intent.confidence = intent_scores[1].confidence
        /\ ~(InList(ReturnedIntents, "quick_answer") /\ InList(ReturnedIntents, "deep_research"))
        /\ (Matches("quick_answer") /\ Matches("deep_research"))
              => \/ KeptOver("quick_answer", "deep_research")
                 \/ KeptOver("deep_research", "quick_answer")

\* The query matched both conflicting intents and a third one, and
\* quick_answer, the more confident of the two, was returned.
C23_Witness ==
    /\ intent_scores # <<>>
    /\ Matches("quick_answer")
    /\ Matches("deep_research")
    /\ InList(ReturnedIntents, "quick_answer")
    /\ Len(intent_scores) >= 2

\* 2 to the power k, as the number of subsets of a set of k elements.
TwoToThe(k) == Cardinality(SUBSET (1..k))

RECURSIVE SumOf(_)
SumOf(s) == IF s = <<>> THEN 0 ELSE Head(s) + SumOf(Tail(s))

\* C24: in ScraperAdapter.fetch the wait after failed attempt k, k < retry, is
\* exactly 2^k time units and precedes attempt k + 1, and no wait follows the
\* last failed attempt: a fetch that fails for good has waited retry times,
\* 2^retry - 1 time units in all.
C24_ExponentialBackoff ==
    /\ \A i \in 1..Len(sleeps) : sleeps[i] = TwoToThe(i - 1)
    /\ fpc = "sleep" => Len(sleeps) = attempt + 1 /\ attempt < retry
    /\ fpc \in {"crawl4ai", "httpx"} => Len(sleeps) = attempt
    /\ (LastFetchFailed /\ ~LastUrlInvalid /\ ~LastUrlMalformed) =>
          /\ Len(sleeps) = retry
          /\ SumOf(sleeps) = TwoToThe(retry) - 1

\* fetch(url, retry=3) failed for good after waiting 1, 2 and 4 time units.
C24_Witness ==
    /\ call.tool = "fetch"
    /\ retry = 3
    /\ LastFetchFailed
    /\ sleeps = <<1, 2, 4>>
    /\ result.kind = "ScrapingError"

\* The strategy call at position i of the current fetch follows the order of
\* fetch: the renderer opens each attempt, and the static strategy is called
\* right after the renderer's call of the same attempt, which did not return.
InStrategyOrder(i) ==
    IF strategy_calls[i][2] = "crawl4ai"
    THEN \/ i = 1 /\ strategy_calls[i][1] = 0
         \/ i > 1 /\ strategy_calls[i - 1] = <<strategy_calls[i][1] - 1, "httpx">>
    ELSE i > 1 /\ strategy_calls[i - 1] = <<strategy_calls[i][1], "crawl4ai">>

\* fetch returned a Document.
FetchWon == fpc = "idle" /\ won # "none"

\* C25: within each attempt of ScraperAdapter.fetch the rendering strategy is
\* called first and the static strategy only after the renderer failed in
\* that attempt; the first strategy to succeed ends the fetch at once with
\* its Document: no strategy call, wait or attempt follows.
C25_RendererFirst ==
    /\ \A i \in 1..Len(strategy_calls) : InStrategyOrder(i)
    /\ FetchWon =>
          /\ strategy_calls[Len(strategy_calls)] = <<attempt, won>>
          /\ attempts_made = attempt + 1
          /\ Len(sleeps) = attempt
          /\ Len(fetch_ok) >= 1 /\ fetch_ok[Len(fetch_ok)] = f_url

\* The renderer returned a Document in the second attempt, after both
\* strategies failed in the first and one wait.
C25_Witness ==
    /\ FetchWon
    /\ won = "crawl4ai"
    /\ strategy_calls = << <<0, "crawl4ai">>, <<0, "httpx">>, <<1, "crawl4ai">> >>
    /\ sleeps = <<1>>

\* The current fetch, if any, was called with retry = r and has begun at most
\* r + 1 attempts.
FetchBudget(r) ==
    fetch_calls # <<>> =>
        /\ retry = r
        /\ attempts_made <= r + 1
        /\ \A i \in 1..Len(strategy_calls) : strategy_calls[i][1] <= r

\* C26: crawl_docs fetches with a smaller retry budget than a standalone
\* fetch: each URL it dequeues is fetched by at most one call of fetch, with
\* retry = 1 and so at most 2 attempts, whereas scrape_url fetches its URL
\* with retry = 2, up to 3 attempts.
C26_CrawlRetriesLess ==
    /\ call.tool = "crawl_docs" => FetchBudget(1) /\ Len(fetch_calls) <= Len(dequeued)
    /\ call.tool = "scrape_url" => FetchBudget(2) /\ Len(fetch_calls) <= 1

\* crawl_docs fetched its root and gave up on a linked page after the second
\* attempt.
C26_Witness ==
    /\ call.tool = "crawl_docs"
    /\ Len(pages) >= 1
    /\ LastFetchFailed
    /\ attempts_made = 2
    /\ Len(strategy_calls) = 4
    /\ Len(fetch_calls) >= 2

\* The URL holds one of the substrings crawl_docs skips.
Blocklisted(u) ==
    \E skip \in {"login", "signup", "download", "print", ".pdf", ".zip"} :
        Contains(Lower(u), skip)

\* fetch returned a Document for the root URL of the crawl.
RootFetched == InList(fetch_ok, call.url)

\* C27: crawl_docs raises CrawlError if and only if the root URL is never
\* fetched successfully: the root is skip-listed and nothing is fetched, or
\* its one fetch fails; as long as the root is not fetched no other URL is
\* dequeued or fetched.  (Not so for the root "https://[s.example/docs": it
\* is never fetched, and crawl_docs raises the ValueError of urlparse.)
C27_CrawlErrorIffRootFails ==
    IsCrawl =>
        /\ pc = "done" => ((result.kind = "CrawlError") = ~RootFetched)
        /\ ~RootFetched =>
              /\ \A i \in 1..Len(dequeued) : dequeued[i] = call.url
              /\ \A i \in 1..Len(fetch_calls) : fetch_calls[i] = call.url
        /\ (pc = "done" /\ result.kind = "CrawlError") =>
              /\ pages = <<>>
              /\ dequeued = <<call.url>>
              /\ \/ fetch_calls = <<>> /\ Blocklisted(call.url)
                 \/ fetch_calls = <<call.url>> /\ LastFetchFailed /\ ~Blocklisted(call.url)

(***************************************************************************)
(* A crawl recomputed from the log of a run: the same root, budget and     *)
(* link graph, the fetch and link requests ending as the log says, and the *)
(* follow_external flag as given.                                          *)
(***************************************************************************)
CrawlLog(root, budget, follow_external, calls, ok, answered) ==
    [root |-> root, budget |-> budget, follow_external |-> follow_external,
     fetch_calls |-> calls, fetch_ok |-> ok, link_ok |-> answered]

\* The k-th fetch call of the log returned a Document: its URL was fetched
\* and was not fetched again.
LoggedSuccess(log, k) ==
    /\ InList(log.fetch_ok, log.fetch_calls[k])
    /\ \A j \in (k + 1)..Len(log.fetch_calls) : log.fetch_calls[j] # log.fetch_calls[k]

ReplayEnd(queue, seen, k, deq, got, diverged) ==
    [dequeued |-> deq, fetched |-> got, visited |-> seen, calls |-> k, pending |-> queue,
     diverged |-> diverged]

RECURSIVE ReplayCrawl(_, _, _, _, _, _)
ReplayCrawl(log, queue, seen, k, deq, got) ==
    IF queue = <<>> \/ Cardinality(seen) >= log.budget
    THEN ReplayEnd(queue, seen, k, deq, got, FALSE)
    ELSE IF Head(queue) \in seen \/ Blocklisted(Head(queue))
    THEN ReplayCrawl(log, Tail(queue), seen, k, Append(deq, Head(queue)), got)
    ELSE IF k + 1 > Len(log.fetch_calls) \/ log.fetch_calls[k + 1] # Head(queue)
    THEN ReplayEnd(queue, seen, k, deq, got, TRUE)
    ELSE IF ~LoggedSuccess(log, k + 1)
    THEN ReplayCrawl(log, Tail(queue), seen, k + 1, Append(deq, Head(queue)), got)
    ELSE ReplayCrawl(log,
                     IF InList(log.link_ok, Head(queue))
                     THEN EnqueueLinks(Tail(queue), seen \cup {Head(queue)},
                                       get_same_domain_links(Page(Head(queue), 1).hrefs,
                                                             Head(queue)).links,
                                       log.follow_external, urlparse(log.root).netloc)
                     ELSE Tail(queue),
                     seen \cup {Head(queue)}, k + 1, Append(deq, Head(queue)),
                     Append(got, Head(queue)))

\* The crawl of the log, from its first line.
Replayed(log) == ReplayCrawl(log, <<log.root>>, {}, 0, <<>>, <<>>)

\* The replayed crawl went as the run did: it made the logged fetch calls,
\* dequeued the same URLs in the same order and fetched the same pages.
SameCrawl(replay, calls, deq, pageList, seen) ==
    /\ ~replay.diverged
    /\ replay.calls = Len(calls)
    /\ replay.dequeued = deq
    /\ replay.fetched = [i \in 1..Len(pageList) |-> pageList[i][1]]
    /\ replay.visited = seen

\* C28: follow_external has no effect on what is crawled: with the same root,
\* link graph and fetch outcomes, the crawl with the flag flipped dequeues the
\* same URLs in the same order and fetches the same pages, and every URL the
\* crawl queues is on the domain of the root.
C28_FollowExternalNoEffect ==
    IsCrawl =>
        /\ \A i \in 1..Len(to_visit) : urlparse(to_visit[i]).netloc = root_domain
        /\ pc = "done" =>
              SameCrawl(Replayed(CrawlLog(call.url, max_pages, ~call.follow_external,
                                          fetch_calls, fetch_ok, link_ok)),
                        fetch_calls, dequeued, pages, visited)

\* crawl_docs("https://a.example/docs", follow_external=True) returned two
\* pages; the root page links to https://b.example/other.
C28_Witness ==
    /\ IsCrawl
    /\ call.follow_external
    /\ call.url = "https://a.example/docs"
    /\ pc = "done"
    /\ Len(pages) = 2
    /\ Len(link_ok) >= 1

\* min(max(m, 1), 20)
BudgetOf(m) == IF m < 1 THEN 1 ELSE IF m > 20 THEN 20 ELSE m

\* The entry of `pages` is what one of the strategies produces for its URL.
PageOfItsUrl(p) ==
    \E d \in {Crawl4aiDocument(p[1], version, clock), HttpxDocument(p[1], version, clock)} :
        p = <<p[1], d.title, d.content>>

\* The finished coroutine f went as crawl_docs goes alone on its call with
\* the fetch outcomes f met, and returned what that run returns.
RanAsAlone(f) ==
    /\ SameCrawl(Replayed(CrawlLog(f.call.url, BudgetOf(f.call.max_pages),
                                   f.call.follow_external, f.fetch_calls, f.fetch_ok,
                                   f.link_ok)),
                 f.fetch_calls, f.dequeued, f.pages, f.visited)
    /\ \A i \in 1..Len(f.pages) : PageOfItsUrl(f.pages[i])
    /\ f.result =
          IF f.pages = <<>>
          THEN Raised("CrawlError", CrawlErrorMessage(f.call.url, "No pages could be crawled"))
          ELSE Returned(CombinedDocument(f.call.url, f.pages, BudgetOf(f.call.max_pages)))

\* C29: two crawl_docs invocations interleaved by the event loop at any await
\* (a strategy call, the backoff wait, the link request) do not interfere:
\* each one's visited set, pending queue and page list are its own, and each
\* returns what it returns when it runs alone with the same fetch outcomes.
C29_InterleavedCrawlsIndependent ==
    /\ pc = "done" => RanAsAlone(RunningFrame)
    /\ (other # NoFrame /\ other.pc = "done") => RanAsAlone(other)

\* Both invocations crawled https://a.example/docs and returned two pages
\* each, and they were switched while both were under way.
C29_Witness ==
    /\ interleaved
    /\ pc = "done"
    /\ other.pc = "done"
    /\ other.call.url = call.url
    /\ Len(pages) = 2
    /\ Len(other.pages) = 2

\* A blocklisted root ends in CrawlError without a fetch call.
BlocklistedRootRaises ==
    (IsCrawl /\ pc = "done" /\ Blocklisted(call.url)) =>
        /\ result.kind = "CrawlError"
        /\ fetch_calls = <<>>
        /\ strategy_calls = <<>>
        /\ pages = <<>>

\* A step that adds a fetch call or a page adds no blocklisted URL.
NoBlocklistedAdded ==
    IsCrawl =>
        /\ fetch_calls' # fetch_calls =>
              /\ fetch_calls' = Append(fetch_calls, f_url')
              /\ ~Blocklisted(f_url')
        /\ pages' # pages =>
              /\ Len(pages') = Len(pages) + 1
              /\ pages'[Len(pages')][1] = f_url
              /\ SubSeq(pages', 1, Len(pages)) = pages

\* C30: crawl_docs passes no URL holding a blocklisted substring to fetch and
\* no such URL is among its pages, each page being the Document of a fetched
\* URL; the root URL is no exception: a blocklisted root ends in CrawlError
\* without a fetch call.  The blocklisted root https://[s.example/login, which
\* urlparse rejects, ends in ValueError: `root_domain = urlparse(root_url).netloc`
\* stands before the loop.
C30_BlocklistedNeverFetched == []BlocklistedRootRaises /\ [][NoBlocklistedAdded]_vars

=============================================================================
